---- MODULE Spec2Model ----
(***************************************************************************)
(* State-machine model of the image-annotation core of NOA_image_app:      *)
(*   - LRUCache            (src/noa_app/services/cache.py)                  *)
(*   - MainWindow crops    (src/noa_app/ui/main_window.py)                  *)
(*   - load_image_rgb      (src/noa_app/services/image_io.py)               *)
(*   - crop_with_padding   (src/noa_app/services/cropper.py)                *)
(*   - resolve_image_path  (src/standalone_app/sperm_verification_app.py)   *)
(* The specifications share the variables: Spec (the cache alone),         *)
(* SpecWindow (MainWindow driving the cache), SpecCrop (the pure crop       *)
(* geometry), SpecResolver (the standalone app's path resolver), and one   *)
(* further specification per part of the program introduced below.         *)
(***************************************************************************)
EXTENDS Integers, Sequences, FiniteSets, TLC

VARIABLES
    \* ---- LRUCache (cache.py)
    capacity,           \* LRUCache.capacity
    disk_dir,           \* LRUCache.disk_dir (None or a directory)
    store,              \* LRUCache.store: OrderedDict, oldest first, of [key, val]
    disk,               \* files of the disk directory: file name -> pickled value
    recency,            \* ghost: keys in order of their last access, oldest first
    lastPut,            \* ghost: key -> value of the latest completed put (or None)
    last,               \* ghost: what the latest cache operation did
    \* ---- MainWindow (main_window.py)
    detections,         \* MainWindow.detections
    conf_threshold,     \* MainWindow.conf_threshold (percent)
    files,              \* the image files: path -> what each decoder makes of it
    pc,                 \* position of _refresh_grid's loop, or idle
    grid,               \* the items handed to grid_panel.set_items
    req,                \* ghost: the latest _thumb_for / _crop_for_view call
    prevReq,            \* ghost: the call before it, if nothing came in between
    \* ---- crop_with_padding (cropper.py)
    crop_in,            \* arguments of the latest call
    crop_out,           \* its outcome
    \* ---- SpermVerificationApp resolver (sperm_verification_app.py)
    fs,                 \* the files that exist (absolute paths)
    data_root_path,     \* SpermVerificationApp.data_root_path
    json_file_path,     \* SpermVerificationApp.json_file_path
    annotations_data,   \* SpermVerificationApp.annotations_data (image_path of each entry)
    image_lookup_cache, \* SpermVerificationApp.image_lookup_cache: basename -> path
    memo_root,          \* ghost: basename -> data root in effect when it was memoized
    resolved,           \* ghost: the resolutions of the latest process_annotations
    min_confidence,     \* threshold_spinbox.value(), in percent
    current_detections, \* SpermVerificationApp.current_detections
    grid_order,         \* the detections of the grid, in the order populate_grid adds them
    flat,               \* ghost: the data and threshold of the latest process_annotations
    confirmed_detections, \* SpermVerificationApp.confirmed_detections: ids
    click_timestamps,   \* SpermVerificationApp.click_timestamps: the ids that have one
    session_start_time, \* SpermVerificationApp.session_start_time (None or set)
    exported,           \* ghost: the latest export, its rows and who was confirmed
    \* ---- load_image_rgb (image_io.py)
    decode_in,          \* the file of the latest call
    decode_out,         \* what it returned
    \* ---- load_detections / process_annotations as functions of a JSON value
    parse_in,           \* the JSON value and the threshold
    parse_out,          \* what each parser made of it
    \* ---- callers of _thumb_for running side by side
    tpc,                \* caller -> its position in _thumb_for
    \* ---- resolve_image_path, step 2, as a function of the declared reference
    strip_in,           \* the reference
    strip_out,          \* the candidate of step 2
    \* ---- the review session timer of either app
    session             \* the clock and the timer fields of the app

cacheVars == <<capacity, disk_dir, store, disk, recency, lastPut, last>>

windowVars == <<detections, conf_threshold, files, pc, grid, req, prevReq>>

cropVars == <<crop_in, crop_out>>

resolverVars == <<fs, data_root_path, json_file_path, annotations_data,
                  image_lookup_cache, memo_root, resolved,
                  min_confidence, current_detections, grid_order, flat,
                  confirmed_detections, click_timestamps, session_start_time,
                  exported>>

decodeVars == <<decode_in, decode_out>>

parseVars == <<parse_in, parse_out>>

threadVars == <<tpc>>

stripVars == <<strip_in, strip_out>>

timerVars == <<session>>

vars == <<capacity, disk_dir, store, disk, recency, lastPut, last,
          detections, conf_threshold, files, pc, grid, req, prevReq,
          crop_in, crop_out,
          fs, data_root_path, json_file_path, annotations_data,
          image_lookup_cache, memo_root, resolved,
          min_confidence, current_detections, grid_order, flat,
          confirmed_detections, click_timestamps, session_start_time, exported,
          decode_in, decode_out, parse_in, parse_out, tpc,
          strip_in, strip_out, session>>

None == "None"

(***************************************************************************)
(* Bounds of the cache model.                                              *)
(***************************************************************************)
MaxCapacity == 2

CacheKeys == {"k1", "k2", "k3"}

CacheValues == {"v1", "v2"}

CacheDir == "cache_dir"

(***************************************************************************)
(* OrderedDict helpers (collections.OrderedDict as LRUCache uses it).      *)
(***************************************************************************)
StoreKeys(s) == {s[i].key : i \in 1..Len(s)}

KeySeq(s) == [i \in 1..Len(s) |-> s[i].key]

IndexOf(s, k) == CHOOSE i \in 1..Len(s) : s[i].key = k

ValueOf(s, k) == s[IndexOf(s, k)].val

RemoveKey(s, k) == SelectSeq(s, LAMBDA e : e.key # k)

\* self.store[key] = value: an existing key keeps its position, a new one is appended
SetItem(s, k, v) ==
    IF k \in StoreKeys(s)
    THEN [i \in 1..Len(s) |-> IF s[i].key = k THEN [key |-> k, val |-> v] ELSE s[i]]
    ELSE Append(s, [key |-> k, val |-> v])

\* a move_to_end that forgets to move
MoveToEndNoMove(s, k) == s

\* self.store.move_to_end(key)
MoveToEnd(s, k) ==
    IF k \in StoreKeys(s)
    THEN Append(RemoveKey(s, k), s[IndexOf(s, k)])
    ELSE s

\* an eviction loop that tolerates one entry too many
EvictOffByOne(s, cap) ==
    IF Len(s) > cap + 1 THEN SubSeq(s, Len(s) - cap, Len(s)) ELSE s

\* LRUCache._evict: while len(store) > capacity: popitem(last=False)
RECURSIVE Evict(_, _)
Evict(s, cap) ==
    IF Len(s) > cap THEN Evict(Tail(s), cap) ELSE s

\* the keys _evict pops from s, in the order popped
Evicted(s, cap) ==
    LET kept == Evict(s, cap)
    IN  KeySeq(SubSeq(s, 1, Len(s) - Len(kept)))

\* hashlib.sha1(repr(key)).hexdigest(): one name per key (collisions ignored)
Sha1Hex(k) == <<"sha1", k>>

\* LRUCache._key_to_path
KeyToPath(dd, k) == IF dd = None THEN None ELSE <<dd, Sha1Hex(k), "pkl">>

\* Path.exists() on a cache file
FileExists(d, p) == p \in DOMAIN d

\* a put that keeps the disk tier only
PutStoreSkip(s, k, v, cap) == s

\* put, memory tier: lines 42-44
PutStore(s, k, v, cap) == Evict(MoveToEnd(SetItem(s, k, v), k), cap)

\* a disk write that never overwrites an existing file
PutDiskKeepOld(d, dd, k, v) ==
    LET p == KeyToPath(dd, k)
    IN  IF p = None \/ p \in DOMAIN d THEN d ELSE (p :> v) @@ d

\* put, disk tier: lines 45-48 (pickle.dump then pickle.load gives the value back)
PutDisk(d, dd, k, v) ==
    LET p == KeyToPath(dd, k)
    IN  IF p = None THEN d ELSE (p :> v) @@ d

\* a promotion that returns the disk value without keeping it in memory
PromoteSkip(s, k, v, cap) == s

\* get, disk hit: lines 35-37
Promote(s, k, v, cap) == Evict(MoveToEnd(SetItem(s, k, v), k), cap)

\* which tier a get(key) is answered from
GetTier(s, d, dd, k) ==
    IF k \in StoreKeys(s) THEN "mem"
    ELSE IF KeyToPath(dd, k) # None /\ FileExists(d, KeyToPath(dd, k)) THEN "disk"
    ELSE "miss"

\* LRUCache.get: the store after the call
GetStore(s, d, dd, k, cap) ==
    CASE GetTier(s, d, dd, k) = "mem"  -> MoveToEnd(s, k)
      [] GetTier(s, d, dd, k) = "disk" -> Promote(s, k, d[KeyToPath(dd, k)], cap)
      [] OTHER -> s

\* LRUCache.get: the value returned
GetValue(s, d, dd, k) ==
    CASE GetTier(s, d, dd, k) = "mem"  -> ValueOf(MoveToEnd(s, k), k)
      [] GetTier(s, d, dd, k) = "disk" -> d[KeyToPath(dd, k)]
      [] OTHER -> None

(***************************************************************************)
(* Paths.  A path string is a sequence of tokens: "/" is the separator,    *)
(* "." and ".." are the dot components, every other token is a name (a     *)
(* run of characters that begins with neither "." nor "/").  A pathlib     *)
(* path is [abs, parts].                                                   *)
(***************************************************************************)
\* pathlib.Path(s): separators and "." components are dropped, ".." is kept
PurePath(s) ==
    [abs |-> Len(s) > 0 /\ s[1] = "/",
     parts |-> SelectSeq(s, LAMBDA t : t \notin {"/", "."})]

\* Path.name
Name(p) == IF Len(p.parts) = 0 THEN "" ELSE p.parts[Len(p.parts)]

\* Path.parent
Parent(p) ==
    IF Len(p.parts) = 0 THEN p
    ELSE [p EXCEPT !.parts = SubSeq(p.parts, 1, Len(p.parts) - 1)]

\* root / other
JoinPath(root, other) ==
    IF other.abs THEN other
    ELSE [abs |-> root.abs, parts |-> root.parts \o other.parts]

RECURSIVE JoinTokens(_)
JoinTokens(parts) ==
    IF Len(parts) = 0 THEN <<>>
    ELSE IF Len(parts) = 1 THEN <<parts[1]>>
    ELSE <<parts[1], "/">> \o JoinTokens(Tail(parts))

\* str(path)
Str(p) ==
    IF p.abs THEN <<"/">> \o JoinTokens(p.parts)
    ELSE IF Len(p.parts) = 0 THEN <<".">>
    ELSE JoinTokens(p.parts)

\* the names that begin with a dot, and what is left of each without its dots
DotNames == {".hidden"}

Undotted(name) == IF name = ".hidden" THEN "hidden" ELSE name

\* str.lstrip("./"): every leading "." and "/" character goes, the dots of a
\* leading dot-name included
RECURSIVE LStripDotSlash(_)
LStripDotSlash(s) ==
    IF Len(s) > 0 /\ s[1] \in {".", "..", "/"}
    THEN LStripDotSlash(Tail(s))
    ELSE IF Len(s) > 0 /\ s[1] \in DotNames
    THEN <<Undotted(s[1])>> \o Tail(s)
    ELSE s

RECURSIVE Collapse(_, _)
Collapse(done, todo) ==
    IF Len(todo) = 0 THEN done
    ELSE IF todo[1] = ".."
    THEN Collapse(IF Len(done) = 0 THEN done ELSE SubSeq(done, 1, Len(done) - 1),
                  Tail(todo))
    ELSE Collapse(Append(done, todo[1]), Tail(todo))

\* Path.resolve() in working directory cwd (no symbolic links)
Resolve(p, cwd) ==
    [abs |-> TRUE, parts |-> Collapse(<<>>, JoinPath(cwd, p).parts)]

(***************************************************************************)
(* crop_with_padding (cropper.py).  An image is [height, width, channels,  *)
(* dtype, src]; padding_ratio is a fraction <<num, den>>.                  *)
(***************************************************************************)
Max2(a, b) == IF a >= b THEN a ELSE b

Min2(a, b) == IF a <= b THEN a ELSE b

\* int(x * ratio) for x >= 0
IntTimes(x, ratio) == (x * ratio[1]) \div ratio[2]

\* a slice bound i of an axis of length n, as numpy normalises it
SliceIndex(i, n) ==
    IF i < 0 THEN Max2(i + n, 0) ELSE Min2(i, n)

\* the length of a[start:stop] on an axis of length n
SliceLen(start, stop, n) ==
    Max2(SliceIndex(stop, n) - SliceIndex(start, n), 0)

\* numpy's assignment rule on one axis: equal lengths, or a source of length 1
BroadcastOK(src, dst) == src = dst \/ src = 1

\* lines 40-65, up to the placement of the crop on the canvas
CropGeometry(image, bbox, spec) ==
    LET h == image.height
        w == image.width
        bw == bbox.xmax - bbox.xmin
        bh == bbox.ymax - bbox.ymin
        pad_x == IntTimes(bw, spec.padding_ratio)
        pad_y == IntTimes(bh, spec.padding_ratio)
        cx == (bbox.xmin + bbox.xmax) \div 2
        cy == (bbox.ymin + bbox.ymax) \div 2
        half == Max2((bw \div 2) + pad_x, (bh \div 2) + pad_y)
        left == cx - half
        right == cx + half
        top == cy - half
        bottom == cy + half
        x0 == Max2(0, left)
        y0 == Max2(0, top)
        x1 == Min2(w, right)
        y1 == Min2(h, bottom)
        crop_h == SliceLen(y0, y1, h)
        crop_w == SliceLen(x0, x1, w)
        size == 2 * half
        dx == x0 - left
        dy == y0 - top
    IN  [half |-> half, left |-> left, right |-> right, top |-> top,
         bottom |-> bottom, x0 |-> x0, y0 |-> y0, x1 |-> x1, y1 |-> y1,
         crop_h |-> crop_h, crop_w |-> crop_w, size |-> size,
         dx |-> dx, dy |-> dy,
         dst_h |-> SliceLen(dy, dy + crop_h, size),
         dst_w |-> SliceLen(dx, dx + crop_w, size)]

\* line 65 on the geometry g: the source pixel <<row, column>> that canvas
\* pixel (i, j) holds after the assignment, or <<>> for a pixel left at zero.
\* The rows written begin at dy as the slice takes it, the rows read at y0;
\* a crop of one row is repeated over the rows written.
CanvasPixel(g, image, i, j) ==
    LET row0 == SliceIndex(g.dy, g.size)
        col0 == SliceIndex(g.dx, g.size)
    IN  IF /\ row0 <= i /\ i < row0 + g.dst_h
           /\ col0 <= j /\ j < col0 + g.dst_w
        THEN << SliceIndex(g.y0, image.height)
                    + (IF g.crop_h = 1 THEN 0 ELSE i - row0),
                SliceIndex(g.x0, image.width)
                    + (IF g.crop_w = 1 THEN 0 ELSE j - col0) >>
        ELSE <<>>

\* lines 65-68 on the geometry g: the exception raised, or the resized buffer.
\* `black` says no source pixel reached the canvas.
CropResult(g, image, spec) ==
    IF ~(BroadcastOK(g.crop_h, g.dst_h) /\ BroadcastOK(g.crop_w, g.dst_w))
    THEN [error |-> "ValueError"]          \* line 65: shapes do not broadcast
    ELSE IF g.size = 0 \/ spec.output_size < 1
    THEN [error |-> "cv2.error"]           \* line 67: resize of an empty canvas
    ELSE [error |-> None,
          height |-> spec.output_size, width |-> spec.output_size,
          channels |-> image.channels, dtype |-> image.dtype,
          black |-> (g.dst_h = 0 \/ g.dst_w = 0),
          src |-> image.src]

\* crop_with_padding
CropWithPadding(image, bbox, spec) ==
    CropResult(CropGeometry(image, bbox, spec), image, spec)

(***************************************************************************)
(* load_image_rgb and to_uint8_for_display (image_io.py).  A file is what  *)
(* each decoder makes of it: pil says that PIL opens and converts it, cv2  *)
(* is the shape of the array cv2.imread returns, tifffile the shape of the *)
(* array tifffile.imread returns (NoArray: None, or an exception), dtype   *)
(* the sample type of those arrays.                                        *)
(***************************************************************************)
ImgH == 3

ImgW == 4

PlaceholderH == 1024

PlaceholderW == 1280

NoArray == <<>>

Unreadable == [pil |-> FALSE, cv2 |-> NoArray, tifffile |-> NoArray, dtype |-> "uint8"]

\* arr.size of an array of that shape
RECURSIVE ArraySize(_)
ArraySize(shape) ==
    IF Len(shape) = 0 THEN 1 ELSE shape[1] * ArraySize(Tail(shape))

\* lines 53-54: the first image of a stack
FirstImage(shape) == IF Len(shape) = 4 THEN Tail(shape) ELSE shape

\* lines 62-63: channel-first is assumed when the first axis has 1, 3 or 4
\* elements and the last has not
ToChannelLast(shape) ==
    IF shape[1] \in {1, 3, 4} /\ shape[3] \notin {1, 3, 4}
    THEN <<shape[2], shape[3], shape[1]>>
    ELSE shape

\* lines 64-67: one channel is repeated, channels after the third are dropped
ToThreeChannels(shape) ==
    IF shape[3] = 1 \/ shape[3] > 3 THEN <<shape[1], shape[2], 3>> ELSE shape

\* lines 59-67 on the shape of a two- or three-dimensional array
TiffNormalize(shape) ==
    IF Len(shape) = 2 THEN <<shape[1], shape[2], 3>>
    ELSE ToThreeChannels(ToChannelLast(shape))

\* lines 51-57: tifffile.imread returned an array with data in it
TiffUsable(shape) == shape # NoArray /\ ArraySize(FirstImage(shape)) # 0

\* load_image_rgb: PIL, then OpenCV, then tifffile, then the placeholder
LoadImageRgb(path, file) ==
    IF file.pil
    THEN [height |-> ImgH, width |-> ImgW, channels |-> 3, dtype |-> "uint8",
          src |-> <<"PIL", path>>]
    ELSE IF file.cv2 # NoArray
    THEN [height |-> file.cv2[1], width |-> file.cv2[2], channels |-> 3,
          dtype |-> file.dtype, src |-> <<"cv2", path>>]
    ELSE IF TiffUsable(file.tifffile)
    THEN [height |-> TiffNormalize(FirstImage(file.tifffile))[1],
          width |-> TiffNormalize(FirstImage(file.tifffile))[2],
          channels |-> TiffNormalize(FirstImage(file.tifffile))[3],
          dtype |-> file.dtype, src |-> <<"tifffile", path>>]
    ELSE [height |-> PlaceholderH, width |-> PlaceholderW, channels |-> 3,
          dtype |-> "uint8", src |-> <<"placeholder">>]

\* convert_all, lines 89-97 (convert_to_png.py): _read_with_pil(...) or
\* _read_with_tifffile(...) or _read_with_cv2(...).  `or` asks every operand
\* but the last for its truth value: None is false, an empty array is false,
\* and an array of more than one element raises ValueError.
ConvertRead(file) ==
    IF file.pil
    THEN [error |-> "ValueError", src |-> None]
    ELSE IF TiffUsable(file.tifffile)
    THEN [error |-> "ValueError", src |-> None]
    ELSE IF file.cv2 # NoArray
    THEN [error |-> None, src |-> "cv2"]
    ELSE [error |-> None, src |-> "FAILED"]

\* to_uint8_for_display
ToUint8ForDisplay(buf) ==
    IF buf.dtype = "uint8" THEN buf
    ELSE IF buf.dtype = "uint16" THEN [buf EXCEPT !.dtype = "uint8"]
    ELSE [error |-> "ValueError"]

(***************************************************************************)
(* Ghost bookkeeping: the order of last accesses, kept apart from the      *)
(* OrderedDict so that the two can be compared.                            *)
(***************************************************************************)
Touch(r, k) == Append(SelectSeq(r, LAMBDA x : x # k), k)

\* the key of S whose last access is the oldest
OldestIn(r, S) ==
    IF S = {} THEN None
    ELSE LET idx == {i \in 1..Len(r) : r[i] \in S}
         IN  r[CHOOSE i \in idx : \A j \in idx : i <= j]

NoOp == [op |-> "init", key |-> None, ret |-> None, tier |-> None,
         evicted |-> <<>>, preKeys |-> <<>>, oldest |-> None,
         prevOp |-> None, prevKey |-> None, diskVal |-> None]

(***************************************************************************)
(* The parts of the state a specification does not use stay as they are    *)
(* after construction.                                                     *)
(***************************************************************************)
Idle == [at |-> "idle", i |-> 0, todo |-> <<>>, items |-> <<>>]

NoCall == [error |-> "NoCall"]

NoReq == [op |-> None, key |-> <<>>, ret |-> NoCall, decodes |-> 0, tier |-> None,
          readable |-> FALSE]

NoPrev == [key |-> <<>>, ret |-> NoCall, decodes |-> 0]

WindowIdle ==
    /\ detections = <<>>
    /\ conf_threshold = 0
    /\ files = <<>>
    /\ pc = Idle
    /\ grid = <<>>
    /\ req = NoReq
    /\ prevReq = NoPrev

NoCropIn == [called |-> FALSE]

CropIdle ==
    /\ crop_in = NoCropIn
    /\ crop_out = NoCall

\* threshold_spinbox.setValue(0.5), in percent
DefaultThreshold == 50

NoFlat == [data |-> <<>>, threshold |-> 0]

\* no export yet
NoExport == [rows |-> {}, confirmed |-> {}]

ResolverIdle ==
    /\ fs = {}
    /\ data_root_path = <<>>
    /\ json_file_path = None
    /\ annotations_data = <<>>
    /\ image_lookup_cache = <<>>
    /\ memo_root = <<>>
    /\ resolved = <<>>
    /\ min_confidence = DefaultThreshold
    /\ current_detections = <<>>
    /\ grid_order = <<>>
    /\ flat = NoFlat
    /\ confirmed_detections = {}
    /\ click_timestamps = {}
    /\ session_start_time = None
    /\ exported = NoExport

DecodeIdle ==
    /\ decode_in = NoCall
    /\ decode_out = NoCall

ParseIdle ==
    /\ parse_in = NoCall
    /\ parse_out = NoCall

ThreadsIdle == tpc = <<>>

StripIdle ==
    /\ strip_in = NoCall
    /\ strip_out = NoCall

NoSession == [app |-> None]

TimerIdle == session = NoSession

CacheIdle ==
    /\ capacity = None
    /\ disk_dir = None
    /\ store = <<>>
    /\ disk = <<>>
    /\ recency = <<>>
    /\ lastPut = <<>>
    /\ last = NoOp

(***************************************************************************)
(* Spec: one LRUCache, its directory, and a caller issuing get and put.    *)
(***************************************************************************)
InitCache ==
    /\ capacity \in 1..MaxCapacity
    /\ disk_dir \in {None, CacheDir}
    /\ store = <<>>
    /\ disk = <<>>
    /\ recency = <<>>
    /\ lastPut = [k \in CacheKeys |-> None]
    /\ last = NoOp

Init ==
    /\ InitCache
    /\ WindowIdle
    /\ CropIdle
    /\ ResolverIdle
    /\ DecodeIdle
    /\ ParseIdle
    /\ ThreadsIdle
    /\ StripIdle
    /\ TimerIdle

\* LRUCache.get(key)
Get(k) ==
    LET tier == GetTier(store, disk, disk_dir, k)
        before == IF tier = "disk" THEN SetItem(store, k, disk[KeyToPath(disk_dir, k)])
                  ELSE store
    IN  /\ store' = GetStore(store, disk, disk_dir, k, capacity)
        /\ recency' = IF tier = "miss" THEN recency ELSE Touch(recency, k)
        /\ last' = [op |-> "get", key |-> k,
                    ret |-> GetValue(store, disk, disk_dir, k),
                    tier |-> tier,
                    evicted |-> IF tier = "disk" THEN Evicted(before, capacity) ELSE <<>>,
                    preKeys |-> KeySeq(store),
                    oldest |-> OldestIn(recency, StoreKeys(store)),
                    prevOp |-> last.op,
                    prevKey |-> IF last.op = "get" /\ last.tier # "miss"
                                THEN last.key ELSE None,
                    diskVal |-> IF tier = "disk" THEN disk[KeyToPath(disk_dir, k)]
                                ELSE None]
        /\ UNCHANGED <<capacity, disk_dir, disk, lastPut>>
        /\ UNCHANGED <<windowVars, cropVars, resolverVars, decodeVars, parseVars, threadVars,
                 stripVars, timerVars>>

\* LRUCache.put(key, value)
Put(k, v) ==
    /\ store' = PutStore(store, k, v, capacity)
    /\ disk' = PutDisk(disk, disk_dir, k, v)
    /\ recency' = Touch(recency, k)
    /\ lastPut' = [lastPut EXCEPT ![k] = v]
    /\ last' = [op |-> "put", key |-> k, ret |-> None,
                tier |-> IF k \in StoreKeys(store) THEN "mem" ELSE "miss",
                evicted |-> Evicted(MoveToEnd(SetItem(store, k, v), k), capacity),
                preKeys |-> KeySeq(store),
                oldest |-> OldestIn(recency, StoreKeys(store)),
                prevOp |-> last.op,
                prevKey |-> IF last.op = "get" /\ last.tier # "miss"
                            THEN last.key ELSE None,
                diskVal |-> None]
    /\ UNCHANGED <<capacity, disk_dir>>
    /\ UNCHANGED <<windowVars, cropVars, resolverVars, decodeVars, parseVars, threadVars,
                 stripVars, timerVars>>

\* LRUCache.__init__ again on the same directory (a cache reset)
NewCache ==
    /\ store' = <<>>
    /\ recency' = <<>>
    /\ last' = [NoOp EXCEPT !.op = "new", !.prevOp = last.op]
    /\ UNCHANGED <<capacity, disk_dir, disk, lastPut>>
    /\ UNCHANGED <<windowVars, cropVars, resolverVars, decodeVars, parseVars, threadVars,
                 stripVars, timerVars>>

Next ==
    \/ \E k \in CacheKeys : Get(k)
    \/ \E k \in CacheKeys, v \in CacheValues : Put(k, v)
    \/ NewCache

Spec == Init /\ [][Next]_vars

(***************************************************************************)
(* load_detections (json_loader.py).  A dataset file is a sequence of      *)
(* entries, each a JSON object (a record that has the fields the file      *)
(* gives it; null is None); scores and thresholds are percents, and the    *)
(* coordinates are whole numbers, which _to_int leaves as they are.        *)
(***************************************************************************)
\* dict.get(key, default) on a JSON object
GetOr(d, key, default) == IF key \in DOMAIN d THEN d[key] ELSE default

\* entry.get("pred_boxes") or []
OrEmpty(x) == IF x = None THEN <<>> ELSE x

\* a loop over every box, the last score repeated for the boxes without one
EntryDetectionsPadded(entry) ==
    LET image_p == PurePath(entry.image_path)
        boxes == OrEmpty(GetOr(entry, "pred_boxes", None))
        scores == OrEmpty(GetOr(entry, "pred_scores", None))
        count == IF Len(scores) = 0 THEN 0 ELSE Len(boxes)
    IN  [i \in 1..count |->
            [image_path |-> image_p,
             box_id |-> <<Name(image_p), i - 1>>,
             xmin |-> boxes[i][1], ymin |-> boxes[i][2],
             xmax |-> boxes[i][3], ymax |-> boxes[i][4],
             confidence |-> scores[Min2(i, Len(scores))]]]

\* lines 52-69: the detections of one entry
EntryDetections(entry) ==
    LET image_p == PurePath(entry.image_path)
        boxes == OrEmpty(GetOr(entry, "pred_boxes", None))
        scores == OrEmpty(GetOr(entry, "pred_scores", None))
        count == Min2(Len(boxes), Len(scores))
    IN  [i \in 1..count |->
            [image_path |-> image_p,
             box_id |-> <<Name(image_p), i - 1>>,
             xmin |-> boxes[i][1], ymin |-> boxes[i][2],
             xmax |-> boxes[i][3], ymax |-> boxes[i][4],
             confidence |-> scores[i]]]

\* lines 46-70: entries without an image_path are skipped
RECURSIVE LoadDetections(_)
LoadDetections(data) ==
    IF Len(data) = 0 THEN <<>>
    ELSE IF GetOr(data[1], "image_path", <<>>) = <<>>
    THEN LoadDetections(Tail(data))
    ELSE EntryDetections(data[1]) \o LoadDetections(Tail(data))

(***************************************************************************)
(* SpecWindow: MainWindow (main_window.py) with its thumb_cache, the image *)
(* files it decodes, and a user who loads, filters, hovers and clears.     *)
(***************************************************************************)
ThumbCapacity == 512

ThumbSize == 128

ViewSize == 512

ThumbSpec == [padding_ratio |-> <<1, 1>>, output_size |-> ThumbSize]

ViewSpec == [padding_ratio |-> <<1, 1>>, output_size |-> ViewSize]

ATif == <<".", "/", "a.tif">>

BTif == <<"b.tif">>

\* the dataset files the user can pick
JsonFiles ==
    { << [image_path |-> ATif, pred_boxes |-> << <<1, 1, 3, 3>> >>,
          pred_scores |-> <<90>>] >>,
      << [image_path |-> ATif,
          pred_boxes |-> << <<1, 1, 3, 3>>, <<-3, 0, -2, 1>> >>,
          pred_scores |-> <<90, 40>>],
         [image_path |-> BTif, pred_boxes |-> << <<0, 0, 2, 2>> >>,
          pred_scores |-> <<70>>] >> }

ImagePaths == {PurePath(ATif), PurePath(BTif)}

Readable == [pil |-> TRUE, cv2 |-> <<ImgH, ImgW, 3>>, tifffile |-> NoArray,
             dtype |-> "uint8"]

FileStates == {Unreadable, Readable}

Thresholds == {0, 50}

CanDecode(file) == file.pil \/ file.cv2 # NoArray \/ TiffUsable(file.tifffile)

\* numpy_rgb_to_qpixmap (qt_image.py)
NumpyRgbToQPixmap(buf) ==
    IF buf.error # None THEN buf
    ELSE IF buf.dtype # "uint8" THEN [error |-> "ValueError"]
    ELSE [error |-> None, pixmap |-> buf]

BBoxOf(det) == [xmin |-> det.xmin, ymin |-> det.ymin,
                xmax |-> det.xmax, ymax |-> det.ymax]

\* f"{variant}:{det.image_path}:{det.box_id}"
CropKey(variant, det) == <<variant, Str(det.image_path), det.box_id>>

\* to_uint8_for_display on what crop_with_padding returned, if it returned
CropToDisplay(crop_img) ==
    IF crop_img.error = None THEN ToUint8ForDisplay(crop_img) ELSE crop_img

\* the miss path: load_image_rgb, crop_with_padding, to_uint8_for_display,
\* numpy_rgb_to_qpixmap
RenderCrop(det, spec, fls) ==
    NumpyRgbToQPixmap(CropToDisplay(
        CropWithPadding(LoadImageRgb(det.image_path, fls[det.image_path]),
                        BBoxOf(det), spec)))

\* the cache after the call, what it returned or raised, and how many times
\* it decoded
CropOutcome(key, tier, cached, afterGet, pix, d, dd, cap) ==
    IF tier # "miss"                    \* a pixmap is never None
    THEN [store |-> afterGet, disk |-> d, ret |-> cached, decodes |-> 0,
          tier |-> tier, key |-> key]
    ELSE IF pix.error # None
    THEN [store |-> afterGet, disk |-> d, ret |-> pix, decodes |-> 1,
          tier |-> tier, key |-> key]
    ELSE [store |-> PutStore(afterGet, key, pix, cap),
          disk |-> PutDisk(d, dd, key, pix), ret |-> pix, decodes |-> 1,
          tier |-> tier, key |-> key]

\* _thumb_for / _crop_for_view
CropRequest(variant, det, spec, s, d, dd, cap, fls) ==
    CropOutcome(CropKey(variant, det),
                GetTier(s, d, dd, CropKey(variant, det)),
                GetValue(s, d, dd, CropKey(variant, det)),
                GetStore(s, d, dd, CropKey(variant, det), cap),
                RenderCrop(det, spec, fls), d, dd, cap)

\* _filtered_detections
FilteredDetections(dets, threshold) ==
    SelectSeq(dets, LAMBDA det : det.confidence >= threshold)

InitWindow ==
    /\ capacity = ThumbCapacity
    /\ disk_dir = None
    /\ store = <<>>
    /\ disk = <<>>
    /\ recency = <<>>
    /\ lastPut = <<>>
    /\ last = NoOp
    /\ detections = <<>>
    /\ conf_threshold = 0
    /\ files \in [ImagePaths -> FileStates]
    /\ pc = Idle
    /\ grid = <<>>
    /\ req = NoReq
    /\ prevReq = NoPrev
    /\ CropIdle
    /\ ResolverIdle
    /\ DecodeIdle
    /\ ParseIdle
    /\ ThreadsIdle
    /\ StripIdle
    /\ TimerIdle

\* _refresh_grid, entered: the filtered list is taken once, before the loop
StartRefresh(dets, threshold) ==
    pc' = [at |-> "loop", i |-> 1, todo |-> FilteredDetections(dets, threshold),
           items |-> <<>>]

\* load_json: load_detections, then _refresh_grid
LoadJson(data) ==
    /\ pc.at = "idle"
    /\ detections' = LoadDetections(data)
    /\ StartRefresh(detections', conf_threshold)
    /\ UNCHANGED <<conf_threshold, files, grid, req, prevReq>>
    /\ UNCHANGED <<cacheVars, cropVars, resolverVars, decodeVars, parseVars, threadVars,
                 stripVars, timerVars>>

\* on_conf_changed: the threshold, then _refresh_grid
OnConfChanged(val) ==
    /\ pc.at = "idle"
    /\ conf_threshold' = val
    /\ StartRefresh(detections, val)
    /\ UNCHANGED <<detections, files, grid, req, prevReq>>
    /\ UNCHANGED <<cacheVars, cropVars, resolverVars, decodeVars, parseVars, threadVars,
                 stripVars, timerVars>>

\* one call of _thumb_for or _crop_for_view, and its record
Request(variant, det, spec) ==
    \E r \in {CropRequest(variant, det, spec, store, disk, disk_dir, capacity, files)} :
        /\ store' = r.store
        /\ disk' = r.disk
        /\ req' = [op |-> variant, key |-> r.key, ret |-> r.ret,
                   decodes |-> r.decodes, tier |-> r.tier,
                   readable |-> CanDecode(files[det.image_path])]
        /\ prevReq' = [key |-> req.key, ret |-> req.ret, decodes |-> req.decodes]

\* _refresh_grid, one turn of the loop: an exception of _thumb_for leaves the
\* handler, and the grid keeps what it showed
RefreshStep ==
    /\ pc.at = "loop"
    /\ pc.i <= Len(pc.todo)
    /\ Request("thumb", pc.todo[pc.i], ThumbSpec)
    /\ pc' = IF req'.ret.error # None THEN Idle
             ELSE [pc EXCEPT !.i = pc.i + 1,
                             !.items = Append(pc.items,
                                 [det |-> pc.todo[pc.i], pix |-> req'.ret])]
    /\ UNCHANGED <<detections, conf_threshold, files, grid>>
    /\ UNCHANGED <<capacity, disk_dir, recency, lastPut, last>>
    /\ UNCHANGED <<cropVars, resolverVars, decodeVars, parseVars, threadVars,
                 stripVars, timerVars>>

\* _refresh_grid, after the loop: grid_panel.set_items(items)
RefreshDone ==
    /\ pc.at = "loop"
    /\ pc.i > Len(pc.todo)
    /\ grid' = pc.items
    /\ pc' = Idle
    /\ UNCHANGED <<detections, conf_threshold, files, req, prevReq>>
    /\ UNCHANGED <<cacheVars, cropVars, resolverVars, decodeVars, parseVars, threadVars,
                 stripVars, timerVars>>

\* on_item_hover over a thumbnail of the grid: _crop_for_view
OnItemHover(i) ==
    /\ pc.at = "idle"
    /\ i \in 1..Len(grid)
    /\ Request("view", grid[i].det, ViewSpec)
    /\ UNCHANGED <<detections, conf_threshold, files, pc, grid>>
    /\ UNCHANGED <<capacity, disk_dir, recency, lastPut, last>>
    /\ UNCHANGED <<cropVars, resolverVars, decodeVars, parseVars, threadVars,
                 stripVars, timerVars>>

\* clear_all: a new LRUCache(capacity=512) replaces the thumb_cache
WindowClearAll ==
    /\ pc.at = "idle"
    /\ detections' = <<>>
    /\ store' = <<>>
    /\ capacity' = ThumbCapacity
    /\ disk_dir' = None
    /\ grid' = <<>>
    /\ req' = NoReq
    /\ prevReq' = NoPrev
    /\ UNCHANGED <<conf_threshold, files, pc>>
    /\ UNCHANGED <<disk, recency, lastPut, last>>
    /\ UNCHANGED <<cropVars, resolverVars, decodeVars, parseVars, threadVars,
                 stripVars, timerVars>>

\* the environment: a file is repaired, replaced or removed
FileChanges(path, file) ==
    /\ files[path] # file
    /\ files' = [files EXCEPT ![path] = file]
    /\ UNCHANGED <<detections, conf_threshold, pc, grid, req, prevReq>>
    /\ UNCHANGED <<cacheVars, cropVars, resolverVars, decodeVars, parseVars, threadVars,
                 stripVars, timerVars>>

NextWindow ==
    \/ \E data \in JsonFiles : LoadJson(data)
    \/ \E val \in Thresholds : OnConfChanged(val)
    \/ RefreshStep
    \/ RefreshDone
    \/ \E i \in 1..Len(grid) : OnItemHover(i)
    \/ WindowClearAll
    \/ \E path \in ImagePaths, file \in FileStates : FileChanges(path, file)

SpecWindow == InitWindow /\ [][NextWindow]_vars

(***************************************************************************)
(* SpecCrop: crop_with_padding called on one image with every box, padding *)
(* ratio and output size of the bounds.                                    *)
(***************************************************************************)
CoordSpan == 3

MaxOutput == 2

XCoords == (0 - CoordSpan)..(ImgW + CoordSpan)

YCoords == (0 - CoordSpan)..(ImgH + CoordSpan)

\* boxes with xmax > xmin and ymax > ymin, inside, across and outside the image
BBoxes ==
    {[xmin |-> a, ymin |-> b, xmax |-> c, ymax |-> d] :
        a \in XCoords, b \in YCoords, c \in XCoords, d \in YCoords}

ValidBBoxes == {b \in BBoxes : b.xmax > b.xmin /\ b.ymax > b.ymin}

\* padding_ratio 0, 1/2 and 1 (exact as floats)
PaddingRatios == {<<0, 1>>, <<1, 2>>, <<1, 1>>}

OutputSizes == 1..MaxOutput

SourceImage == [height |-> ImgH, width |-> ImgW, channels |-> 3,
                dtype |-> "uint8", src |-> <<"image">>]

\* the arguments of the call are drawn here; CropCall applies the function
InitCrop ==
    /\ CacheIdle
    /\ WindowIdle
    /\ ResolverIdle
    /\ DecodeIdle
    /\ ParseIdle
    /\ ThreadsIdle
    /\ \E bbox \in ValidBBoxes, ratio \in PaddingRatios, out \in OutputSizes :
           crop_in = [called |-> FALSE, image |-> SourceImage, bbox |-> bbox,
                      spec |-> [padding_ratio |-> ratio, output_size |-> out]]
    /\ crop_out = NoCall
    /\ StripIdle
    /\ TimerIdle

CropCall ==
    /\ ~crop_in.called
    /\ crop_in' = [crop_in EXCEPT !.called = TRUE]
    /\ crop_out' = CropWithPadding(crop_in.image, crop_in.bbox, crop_in.spec)
    /\ UNCHANGED <<cacheVars, windowVars, resolverVars, decodeVars, parseVars, threadVars,
                 stripVars, timerVars>>

NextCrop == CropCall

SpecCrop == InitCrop /\ [][NextCrop]_vars

(***************************************************************************)
(* SpecDecode: load_image_rgb, and the read of convert_all, called on one  *)
(* file.  The file is drawn with the layout its TIFF data really has, so   *)
(* that the shape returned can be compared with the image's.               *)
(***************************************************************************)
DecodePath == PurePath(ATif)

SampleTypes == {"uint8", "uint16"}

\* what cv2.imread(path, IMREAD_UNCHANGED) may return for an ImgH x ImgW image
Cv2Arrays == {NoArray, <<ImgH, ImgW>>, <<ImgH, ImgW, 3>>, <<ImgH, ImgW, 4>>}

\* the TIFF data: nothing readable, an empty array, or an ImgH x ImgW image
\* stored as (H, W), (H, W, C), (C, H, W) or a stack (N, H, W, C)
TiffLayouts ==
    {[layout |-> "none", c |-> 0], [layout |-> "empty", c |-> 0],
     [layout |-> "HW", c |-> 1], [layout |-> "NHWC", c |-> 3]}
        \cup {[layout |-> "HWC", c |-> c] : c \in {1, 2, 3, 4}}
        \cup {[layout |-> "CHW", c |-> c] : c \in {1, 3, 4}}

\* the shape tifffile.imread returns for that data
TiffShape(t) ==
    CASE t.layout = "none"  -> NoArray
      [] t.layout = "empty" -> <<0, ImgW>>
      [] t.layout = "HW"    -> <<ImgH, ImgW>>
      [] t.layout = "HWC"   -> <<ImgH, ImgW, t.c>>
      [] t.layout = "CHW"   -> <<t.c, ImgH, ImgW>>
      [] t.layout = "NHWC"  -> <<2, ImgH, ImgW, t.c>>

InitDecode ==
    /\ CacheIdle
    /\ WindowIdle
    /\ CropIdle
    /\ ResolverIdle
    /\ ParseIdle
    /\ ThreadsIdle
    /\ \E pil \in BOOLEAN, cv \in Cv2Arrays, t \in TiffLayouts, dt \in SampleTypes :
           decode_in = [called |-> FALSE, tiff |-> t,
                        file |-> [pil |-> pil, cv2 |-> cv, tifffile |-> TiffShape(t),
                                  dtype |-> dt]]
    /\ decode_out = NoCall
    /\ StripIdle
    /\ TimerIdle

DecodeCall ==
    /\ ~decode_in.called
    /\ decode_in' = [decode_in EXCEPT !.called = TRUE]
    /\ decode_out' = LoadImageRgb(DecodePath, decode_in.file)
                          @@ [convert |-> ConvertRead(decode_in.file)]
    /\ UNCHANGED <<cacheVars, windowVars, cropVars, resolverVars, parseVars, threadVars,
                 stripVars, timerVars>>

NextDecode == DecodeCall

SpecDecode == InitDecode /\ [][NextDecode]_vars

(***************************************************************************)
(* resolve_image_path and its callers (sperm_verification_app.py).         *)
(* The file system is the set fs of existing files (absolute paths); the   *)
(* directories on the way to a file, the data roots and the working        *)
(* directory exist.                                                        *)
(***************************************************************************)
AbsPath(parts) == [abs |-> TRUE, parts |-> parts]

\* the directories datasets are loaded from
Roots == {AbsPath(<<"r1">>), AbsPath(<<"r2">>)}

\* os.chdir(APP_DIRECTORY) in main()
Cwd == AbsPath(<<"app">>)

\* the image files that may exist, in the order a directory scan meets them;
\* below each root at most one of them lies inside an images directory and at
\* most one outside, so the scan order decides nothing
ScanOrder ==
    << AbsPath(<<"r1", "old", "foo.png">>),
       AbsPath(<<"r1", "images", "foo.png">>),
       AbsPath(<<"r2", "old", "foo.png">>),
       AbsPath(<<"r2", "Images", "foo.png">>) >>

CandidateFiles == {ScanOrder[i] : i \in 1..Len(ScanOrder)}

\* str.lower() on the directory names of the model
Lower(name) == IF name = "Images" THEN "images" ELSE name

IsPrefix(a, b) == Len(a) <= Len(b) /\ SubSeq(b, 1, Len(a)) = a

\* Path.exists()
Exists(p, fsys) ==
    LET q == Resolve(p, Cwd)
    IN  \/ q \in fsys
        \/ \E f \in fsys \cup Roots \cup {Cwd} : IsPrefix(q.parts, f.parts)

\* root.rglob(basename): the existing paths below root with that name, as scanned
RGlob(root, basename, fsys) ==
    SelectSeq(ScanOrder, LAMBDA f :
        /\ f \in fsys
        /\ IsPrefix(root.parts, f.parts) /\ Len(f.parts) > Len(root.parts)
        /\ Name(f) = basename)

InImagesDir(p) == Lower(Name(Parent(p))) = "images"

\* step 6 giving back the rebased path instead of the declared reference
GiveUpRebased(image_path, rebased) == Str(rebased)

\* step 6, line 962: the declared reference, as it came
GiveUp(image_path, rebased) == image_path

\* dict.get(basename)
Lookup(cache, basename) ==
    IF basename \in DOMAIN cache THEN cache[basename] ELSE None

\* step 2, line 940: (root / image_path.lstrip("./")).resolve()
Rebased(root, image_path) ==
    Resolve(JoinPath(root, PurePath(LStripDotSlash(image_path))), Cwd)

\* resolve_image_path: what it returns, the step that returned, the lookup
\* cache after the call
ResolveImagePath(image_path, json_dir, root_path, cache, fsys) ==
    LET img_path == PurePath(image_path)
        basename == Name(img_path)
        root == IF root_path # <<>> THEN PurePath(root_path) ELSE json_dir
        rebased == Rebased(root, image_path)
        cached == Lookup(cache, basename)
        found == RGlob(root, basename, fsys)
        inImages == SelectSeq(found, InImagesDir)
    IN  IF img_path.abs /\ Exists(img_path, fsys)
        THEN [ret |-> Str(img_path), step |-> "absolute", cache |-> cache]
        ELSE IF Exists(rebased, fsys)
        THEN [ret |-> Str(rebased), step |-> "rebased", cache |-> cache]
        ELSE IF cached # None /\ Exists(PurePath(cached), fsys)
        THEN [ret |-> cached, step |-> "cached", cache |-> cache]
        ELSE IF Len(inImages) > 0
        THEN [ret |-> Str(inImages[1]), step |-> "images",
              cache |-> (basename :> Str(inImages[1])) @@ cache]
        ELSE IF Len(found) > 0
        THEN [ret |-> Str(found[1]), step |-> "any",
              cache |-> (basename :> Str(found[1])) @@ cache]
        ELSE [ret |-> GiveUp(image_path, rebased), step |-> "giveup", cache |-> cache]

\* ghost: the facts of one resolution that the claims speak about, taken from
\* the file system at the time of the call
Facts(image_path, root, cache, memo, fsys, r) ==
    LET img_path == PurePath(image_path)
        stripped == LStripDotSlash(image_path)
        below == {f \in fsys : /\ IsPrefix(root.parts, f.parts)
                                /\ Len(f.parts) > Len(root.parts)
                                /\ Name(f) = Name(img_path)}
    IN  [ref |-> image_path, root |-> root, ret |-> r.ret, step |-> r.step,
         absExists |-> img_path.abs /\ Exists(img_path, fsys),
         rebasedExists |-> Exists(Resolve(JoinPath(root, PurePath(stripped)), Cwd), fsys),
         memoExists |-> /\ Name(img_path) \in DOMAIN cache
                        /\ Exists(PurePath(cache[Name(img_path)]), fsys),
         imagesMatch |-> \E f \in below : InImagesDir(f),
         anyMatch |-> below # {},
         retExists |-> Exists(PurePath(r.ret), fsys),
         memoRoot |-> IF r.step = "cached" THEN memo[Name(img_path)] ELSE root]

\* lines 885-901, the "detections" format: one record per detection at or
\* above the threshold
FromDetections(image_path, resolved_image_path, dets, threshold) ==
    SelectSeq([i \in 1..Len(dets) |->
                  [id |-> <<Name(PurePath(image_path)), i - 1>>,
                   image_path |-> resolved_image_path,
                   bbox |-> dets[i].bbox,
                   confidence |-> GetOr(dets[i], "confidence", 0),
                   cell_id |-> GetOr(dets[i], "cell_id", <<"cell", i - 1>>)]],
              LAMBDA d : d.confidence >= threshold)

\* the same loop keeping only the scores strictly above the threshold
FromPredArraysStrict(image_path, resolved_image_path, pred_boxes, pred_scores, threshold) ==
    SelectSeq([i \in 1..Min2(Len(pred_boxes), Len(pred_scores)) |->
                  [id |-> <<Name(PurePath(image_path)), i - 1>>,
                   image_path |-> resolved_image_path,
                   bbox |-> pred_boxes[i],
                   confidence |-> pred_scores[i],
                   cell_id |-> <<"sperm", i>>]],
              LAMBDA d : d.confidence > threshold)

\* lines 904-921, the pred_boxes / pred_scores format: zip stops at the shorter
FromPredArrays(image_path, resolved_image_path, pred_boxes, pred_scores, threshold) ==
    SelectSeq([i \in 1..Min2(Len(pred_boxes), Len(pred_scores)) |->
                  [id |-> <<Name(PurePath(image_path)), i - 1>>,
                   image_path |-> resolved_image_path,
                   bbox |-> pred_boxes[i],
                   confidence |-> pred_scores[i],
                   cell_id |-> <<"sperm", i>>]],
              LAMBDA d : d.confidence >= threshold)

\* lines 883-921: the detections of one entry
EntryFlatten(entry, resolved_image_path, threshold) ==
    IF "detections" \in DOMAIN entry
    THEN FromDetections(GetOr(entry, "image_path", <<>>), resolved_image_path,
                        entry.detections, threshold)
    ELSE FromPredArrays(GetOr(entry, "image_path", <<>>), resolved_image_path,
                        GetOr(entry, "pred_boxes", <<>>),
                        GetOr(entry, "pred_scores", <<>>), threshold)

\* lines 877-921: current_detections, the entries taken in file order, each
\* with the path resolve_image_path returned for it
RECURSIVE FlattenAll(_, _, _)
FlattenAll(entries, results, threshold) ==
    IF Len(entries) = 0 THEN <<>>
    ELSE EntryFlatten(entries[1], results[1].ret, threshold)
             \o FlattenAll(Tail(entries), Tail(results), threshold)

\* a sort that puts a detection before the equal ones already placed
InsertBeforeTies(sorted, d) ==
    LET n == Cardinality({i \in 1..Len(sorted) : sorted[i].confidence > d.confidence})
    IN  SubSeq(sorted, 1, n) \o <<d>> \o SubSeq(sorted, n + 1, Len(sorted))

\* sorted(..., reverse=True) is stable: a detection goes after every one placed
\* before it whose confidence is greater or equal
InsertByConfidence(sorted, d) ==
    LET n == Cardinality({i \in 1..Len(sorted) : sorted[i].confidence >= d.confidence})
    IN  SubSeq(sorted, 1, n) \o <<d>> \o SubSeq(sorted, n + 1, Len(sorted))

\* populate_grid, lines 987-989: sorted(current_detections, key=confidence,
\* reverse=True)
RECURSIVE SortedByConfidence(_, _)
SortedByConfidence(sorted, dets) ==
    IF Len(dets) = 0 THEN sorted
    ELSE SortedByConfidence(InsertByConfidence(sorted, dets[1]), Tail(dets))

TheOne(S) == CHOOSE x \in S : TRUE

\* process_annotations, lines 877-880: every entry's image_path is resolved in
\* file order, each call seeing the lookup cache the calls before it left
RECURSIVE ProcessAnnotations(_, _, _, _, _, _, _)
ProcessAnnotations(entries, json_dir, root_path, cache, memo, fsys, results) ==
    IF Len(entries) = 0
    THEN [cache |-> cache, memo |-> memo, results |-> results]
    ELSE LET image_path == GetOr(entries[1], "image_path", <<>>)
             root == IF root_path # <<>> THEN PurePath(root_path) ELSE json_dir
             basename == Name(PurePath(image_path))
         IN  TheOne({ProcessAnnotations(Tail(entries), json_dir, root_path, r.cache,
                          IF r.step \in {"images", "any"}
                          THEN (basename :> root) @@ memo ELSE memo,
                          fsys,
                          Append(results, Facts(image_path, root, cache, memo, fsys, r))) :
                     r \in {ResolveImagePath(image_path, json_dir, root_path, cache, fsys)}})

(***************************************************************************)
(* The two parsers as functions of the JSON value of a dataset file.  A    *)
(* JSON value is [kind |-> "list", items], [kind |-> "object", size] or    *)
(* [kind |-> "number"].                                                    *)
(***************************************************************************)
\* load_detections, lines 44-70, on a JSON value: iterating a number raises
\* TypeError, iterating an object yields its keys, which have no get()
LoadDetectionsJson(json) ==
    CASE json.kind = "list" ->
             [error |-> None, detections |-> LoadDetections(json.items)]
      [] json.kind = "object" ->
             IF json.size = 0 THEN [error |-> None, detections |-> <<>>]
             ELSE [error |-> "AttributeError", detections |-> <<>>]
      [] OTHER -> [error |-> "TypeError", detections |-> <<>>]

\* process_annotations, lines 871-921, on a JSON value, in a data root where
\* the files fsys exist and nothing is memoized
ProcessAnnotationsJson(json, root, threshold, fsys) ==
    CASE json.kind = "list" ->
             [error |-> None,
              detections |->
                  FlattenAll(json.items,
                             ProcessAnnotations(json.items, root, Str(root),
                                                <<>>, <<>>, fsys, <<>>).results,
                             threshold)]
      [] json.kind = "object" ->
             IF json.size = 0 THEN [error |-> None, detections |-> <<>>]
             ELSE [error |-> "AttributeError", detections |-> <<>>]
      [] OTHER -> [error |-> "TypeError", detections |-> <<>>]

(***************************************************************************)
(* SpecParse: both parsers applied to one dataset, written once with       *)
(* pred_boxes / pred_scores arrays and once with a detections list.        *)
(***************************************************************************)
MaxBoxes == 2

\* the boxes an entry declares are the first of these (the second is empty:
\* xmax = xmin)
BoxPool == << <<1, 1, 3, 3>>, <<2, 0, 2, 4>>, <<0, 1, 2, 2>>, <<1, 0, 4, 3>> >>

ScorePool == <<90, 40, 90, 40>>

\* the image_path values: none, two files of one name, another file
ParsePaths == {<<>>, <<"a.tif">>, <<"d", "/", "a.tif">>}

\* an entry as the dataset's author means it: m boxes and n scores
RawEntries ==
    {[image_path |-> ip, boxes |-> SubSeq(BoxPool, 1, m),
      scores |-> SubSeq(ScorePool, 1, n)] :
        ip \in ParsePaths, m \in 0..MaxBoxes, n \in 0..MaxBoxes}

RawDatasets ==
    {<<e>> : e \in RawEntries} \cup {<<e1, e2>> : e1 \in RawEntries, e2 \in RawEntries}

\* the entry written with pred_boxes / pred_scores
AsPredArrays(raw) ==
    IF raw.image_path = <<>>
    THEN [pred_boxes |-> raw.boxes, pred_scores |-> raw.scores]
    ELSE [image_path |-> raw.image_path, pred_boxes |-> raw.boxes,
          pred_scores |-> raw.scores]

\* the same entry written with a detections list (one object per pair)
AsDetections(raw) ==
    LET dets == [i \in 1..Min2(Len(raw.boxes), Len(raw.scores)) |->
                    [bbox |-> raw.boxes[i], confidence |-> raw.scores[i]]]
    IN  IF raw.image_path = <<>> THEN [detections |-> dets]
        ELSE [image_path |-> raw.image_path, detections |-> dets]

\* a dataset file whose top-level value is the list of these entries
JsonList(items) == [kind |-> "list", items |-> items]

PredEntries(raws) == [i \in 1..Len(raws) |-> AsPredArrays(raws[i])]

DetectionsEntries(raws) == [i \in 1..Len(raws) |-> AsDetections(raws[i])]

\* JSON values that are not lists
NonLists == {[kind |-> "object", size |-> 0], [kind |-> "object", size |-> 1],
             [kind |-> "number"]}

ParseThresholds == {0, 50}

ParseRoot == AbsPath(<<"r1">>)

InitParse ==
    /\ CacheIdle
    /\ WindowIdle
    /\ CropIdle
    /\ ResolverIdle
    /\ DecodeIdle
    /\ ThreadsIdle
    /\ \E t \in ParseThresholds :
           \/ \E raws \in RawDatasets :
                  parse_in = [called |-> FALSE, raw |-> raws, threshold |-> t,
                              pred |-> JsonList(PredEntries(raws)),
                              dets |-> JsonList(DetectionsEntries(raws))]
           \/ \E json \in NonLists :
                  parse_in = [called |-> FALSE, raw |-> <<>>, threshold |-> t,
                              pred |-> json, dets |-> json]
    /\ parse_out = NoCall
    /\ StripIdle
    /\ TimerIdle

ParseCall ==
    /\ ~parse_in.called
    /\ parse_in' = [parse_in EXCEPT !.called = TRUE]
    /\ parse_out' =
           [ld_pred |-> LoadDetectionsJson(parse_in.pred),
            ld_dets |-> LoadDetectionsJson(parse_in.dets),
            pa_pred |-> ProcessAnnotationsJson(parse_in.pred, ParseRoot,
                                               parse_in.threshold, {}),
            pa_dets |-> ProcessAnnotationsJson(parse_in.dets, ParseRoot,
                                               parse_in.threshold, {})]
    /\ UNCHANGED <<cacheVars, windowVars, cropVars, resolverVars, decodeVars, threadVars,
                 stripVars, timerVars>>

NextParse == ParseCall

SpecParse == InitParse /\ [][NextParse]_vars

(***************************************************************************)
(* SpecResolver: the standalone app loading datasets from the data roots,  *)
(* re-filtering and clearing, while image files come and go.               *)
(***************************************************************************)
MaxEntries == 1

\* the image_path values a dataset may declare
ImageRefs ==
    { <<".", "/", "old", "/", "foo.png">>,
      <<"foo.png">>,
      <<"/", "r1", "/", "images", "/", "foo.png">> }

RECURSIVE SeqsUpTo(_, _)
SeqsUpTo(S, n) ==
    IF n = 0 THEN {<<>>}
    ELSE LET shorter == SeqsUpTo(S, n - 1)
         IN  shorter \cup {Append(q, x) : q \in shorter, x \in S}

Datasets ==
    SeqsUpTo({[image_path |-> ref] : ref \in ImageRefs}, MaxEntries) \ {<<>>}

InitResolver ==
    /\ CacheIdle
    /\ WindowIdle
    /\ CropIdle
    /\ DecodeIdle
    /\ ParseIdle
    /\ ThreadsIdle
    /\ fs \in SUBSET CandidateFiles
    /\ data_root_path = <<>>
    /\ json_file_path = None
    /\ annotations_data = <<>>
    /\ image_lookup_cache = <<>>
    /\ memo_root = <<>>
    /\ resolved = <<>>
    /\ min_confidence = DefaultThreshold
    /\ current_detections = <<>>
    /\ grid_order = <<>>
    /\ flat = NoFlat
    /\ confirmed_detections = {}
    /\ click_timestamps = {}
    /\ session_start_time = None
    /\ exported = NoExport
    /\ StripIdle
    /\ TimerIdle

\* process_annotations with the app's current paths
Reprocess(json_path, root_path, data) ==
    \E out \in {ProcessAnnotations(data, Parent(PurePath(json_path)), root_path,
                                   image_lookup_cache, memo_root, fs, <<>>)} :
    \E dets \in {FlattenAll(data, out.results, min_confidence)} :
        /\ image_lookup_cache' = out.cache
        /\ memo_root' = out.memo
        /\ resolved' = out.results
        /\ current_detections' = dets
        /\ grid_order' = SortedByConfidence(<<>>, dets)
        /\ flat' = [data |-> data, threshold |-> min_confidence]
        /\ confirmed_detections' = {}

\* the path of the dataset file the user picks in directory root
JsonIn(root) == Str(JoinPath(root, PurePath(<<"data.json">>)))

\* load_annotations / load_real_data: the JSON's folder becomes the data root
LoadAnnotations(root, data) ==
    \E file_path \in {JsonIn(root)} :
    \E parent \in {Str(Parent(PurePath(file_path)))} :
        /\ json_file_path' = file_path
        /\ data_root_path' = parent
        /\ annotations_data' = data
        /\ Reprocess(file_path, parent, data)
        /\ UNCHANGED <<fs, min_confidence, click_timestamps, session_start_time,
                       exported>>
        /\ UNCHANGED <<cacheVars, windowVars, cropVars, decodeVars, parseVars, threadVars,
                 stripVars, timerVars>>

\* apply_confidence_filter: process_annotations again
ApplyConfidenceFilter ==
    /\ annotations_data # <<>>
    /\ Reprocess(json_file_path, data_root_path, annotations_data)
    /\ UNCHANGED <<fs, data_root_path, json_file_path, annotations_data,
                   min_confidence, click_timestamps, session_start_time, exported>>
    /\ UNCHANGED <<cacheVars, windowVars, cropVars, decodeVars, parseVars, threadVars,
                 stripVars, timerVars>>

\* clear_all, confirmed: the data and the root go, the lookup cache stays
ClearAll ==
    /\ annotations_data' = <<>>
    /\ data_root_path' = <<>>
    /\ resolved' = <<>>
    /\ current_detections' = <<>>
    /\ grid_order' = <<>>
    /\ flat' = NoFlat
    /\ confirmed_detections' = {}
    /\ click_timestamps' = {}
    /\ session_start_time' = None
    /\ UNCHANGED <<fs, json_file_path, image_lookup_cache, memo_root,
                   min_confidence, exported>>
    /\ UNCHANGED <<cacheVars, windowVars, cropVars, decodeVars, parseVars, threadVars,
                 stripVars, timerVars>>

\* the environment: an image file appears
CreateFile(f) ==
    /\ f \notin fs
    /\ fs' = fs \cup {f}
    /\ UNCHANGED <<data_root_path, json_file_path, annotations_data,
                   image_lookup_cache, memo_root, resolved,
                   min_confidence, current_detections, grid_order, flat,
                   confirmed_detections, click_timestamps, session_start_time,
                   exported>>
    /\ UNCHANGED <<cacheVars, windowVars, cropVars, decodeVars, parseVars, threadVars,
                 stripVars, timerVars>>

\* the environment: an image file goes
DeleteFile(f) ==
    /\ f \in fs
    /\ fs' = fs \ {f}
    /\ UNCHANGED <<data_root_path, json_file_path, annotations_data,
                   image_lookup_cache, memo_root, resolved,
                   min_confidence, current_detections, grid_order, flat,
                   confirmed_detections, click_timestamps, session_start_time,
                   exported>>
    /\ UNCHANGED <<cacheVars, windowVars, cropVars, decodeVars, parseVars, threadVars,
                 stripVars, timerVars>>

NextResolver ==
    \/ \E root \in Roots, data \in Datasets : LoadAnnotations(root, data)
    \/ ApplyConfidenceFilter
    \/ ClearAll
    \/ \E f \in CandidateFiles : CreateFile(f)
    \/ \E f \in CandidateFiles : DeleteFile(f)

SpecResolver == InitResolver /\ [][NextResolver]_vars

(***************************************************************************)
(* SpecStrip: step 2 of resolve_image_path on every reference of up to     *)
(* MaxTokens tokens.                                                       *)
(***************************************************************************)
MaxTokens == 4

RefTokens == {".", "..", "/", ".hidden", "d", "a.png"}

\* the token sequences that spell a string: two tokens that are not separators
\* never stand side by side
StripRefs ==
    {q \in SeqsUpTo(RefTokens, MaxTokens) :
        /\ Len(q) > 0
        /\ \A i \in 1..(Len(q) - 1) : q[i] = "/" \/ q[i + 1] = "/"}

InitStrip ==
    /\ CacheIdle
    /\ WindowIdle
    /\ CropIdle
    /\ ResolverIdle
    /\ DecodeIdle
    /\ ParseIdle
    /\ ThreadsIdle
    /\ TimerIdle
    /\ \E ref \in StripRefs, root \in Roots :
           strip_in = [called |-> FALSE, image_path |-> ref, root |-> root]
    /\ strip_out = NoCall

StripCall ==
    /\ ~strip_in.called
    /\ strip_in' = [strip_in EXCEPT !.called = TRUE]
    /\ strip_out' = [error |-> None,
                     rebased |-> Rebased(strip_in.root, strip_in.image_path)]
    /\ UNCHANGED <<cacheVars, windowVars, cropVars, resolverVars, decodeVars,
                   parseVars, threadVars, timerVars>>

NextStrip == StripCall

SpecStrip == InitStrip /\ [][NextStrip]_vars

(***************************************************************************)
(* SpecTimer: the review session of either app under start, pause, resume, *)
(* stop and clear, while the clock advances.  session holds the clock, the *)
(* timer fields of the app under their names in MainWindow                 *)
(* (session_started, session_paused_at, total_paused; in the standalone    *)
(* app session_start_time, pause_start_time, total_pause_time, is_paused), *)
(* and as ghosts the time the session really began, the time really spent  *)
(* paused since, and what the latest stop computed and should have.        *)
(***************************************************************************)
MaxTime == 4

\* None in a field that otherwise holds a time
NoTime == -1

Apps == {"noa_app", "standalone_app"}

NewSession(app) ==
    [app |-> app, now |-> 0,
     session_started |-> NoTime, session_paused_at |-> NoTime, total_paused |-> 0,
     is_paused |-> FALSE,
     began |-> 0, pausing |-> FALSE, paused |-> 0,
     elapsed |-> NoTime, due |-> NoTime]

InitTimer ==
    /\ CacheIdle
    /\ WindowIdle
    /\ CropIdle
    /\ ResolverIdle
    /\ DecodeIdle
    /\ ParseIdle
    /\ ThreadsIdle
    /\ StripIdle
    /\ \E app \in Apps : session = NewSession(app)

TimerRest ==
    UNCHANGED <<cacheVars, windowVars, cropVars, resolverVars, decodeVars,
                parseVars, threadVars, stripVars>>

\* datetime.now() moves on; a second spent in a pause counts as paused
ClockTick ==
    /\ session.now < MaxTime
    /\ session' = [session EXCEPT !.now = @ + 1,
                                  !.paused = IF session.pausing THEN @ + 1 ELSE @]
    /\ TimerRest

\* MainWindow.start_timer, lines 202-210 / SpermVerificationApp.start_session,
\* lines 1096-1109 (its button is enabled only without an active session)
StartSession ==
    /\ session.session_started = NoTime
    /\ session' = [session EXCEPT !.session_started = session.now,
                                  !.total_paused = 0,
                                  !.session_paused_at =
                                      IF session.app = "noa_app" THEN NoTime ELSE @,
                                  !.is_paused = FALSE,
                                  !.began = session.now,
                                  !.pausing = FALSE,
                                  !.paused = 0]
    /\ TimerRest

\* MainWindow.toggle_pause, lines 212-226
NoaTogglePause ==
    /\ session.app = "noa_app"
    /\ session.session_started # NoTime
    /\ session' =
           IF session.session_paused_at = NoTime
           THEN [session EXCEPT !.session_paused_at = session.now,
                                !.pausing = TRUE]
           ELSE [session EXCEPT !.total_paused =
                                    @ + (session.now - session.session_paused_at),
                                !.session_paused_at = NoTime,
                                !.pausing = FALSE]
    /\ TimerRest

\* SpermVerificationApp.toggle_pause, lines 1118-1144
StandaloneTogglePause ==
    /\ session.app = "standalone_app"
    /\ session.session_started # NoTime
    /\ session' =
           IF session.is_paused
           THEN [session EXCEPT !.total_paused =
                                    IF session.session_paused_at # NoTime
                                    THEN @ + (session.now - session.session_paused_at)
                                    ELSE @,
                                !.session_paused_at = NoTime,
                                !.is_paused = FALSE,
                                !.pausing = FALSE]
           ELSE [session EXCEPT !.session_paused_at = session.now,
                                !.is_paused = TRUE,
                                !.pausing = TRUE]
    /\ TimerRest

\* the time between start and stop that was not spent paused
TimeDue(ses) == (ses.now - ses.began) - ses.paused

\* MainWindow.stop_and_export, lines 245-286: elapsed goes into the rows; with
\* no confirmed row the handler returns before it resets the timer
NoaStopAndExport(rows) ==
    /\ session.app = "noa_app"
    /\ session.session_started # NoTime
    /\ session' =
           IF rows
           THEN [session EXCEPT
                    !.elapsed = (session.now - session.session_started)
                                    - session.total_paused,
                    !.due = TimeDue(session),
                    !.session_started = NoTime,
                    !.session_paused_at = NoTime,
                    !.total_paused = 0,
                    !.pausing = FALSE]
           ELSE session
    /\ TimerRest

\* SpermVerificationApp.stop_and_export, lines 1146-1171
StandaloneStopAndExport ==
    /\ session.app = "standalone_app"
    /\ session.session_started # NoTime
    /\ session' =
           [session EXCEPT
               !.elapsed = ((session.now - session.session_started)
                                - session.total_paused)
                           - (IF session.is_paused /\ session.session_paused_at # NoTime
                              THEN session.now - session.session_paused_at
                              ELSE 0),
               !.due = TimeDue(session),
               !.session_started = NoTime,
               !.is_paused = FALSE,
               !.pausing = FALSE]
    /\ TimerRest

\* clear_all of either app: the session ends without an export
TimerClearAll ==
    /\ session' =
           IF session.app = "noa_app"
           THEN [session EXCEPT !.session_started = NoTime,
                                !.session_paused_at = NoTime,
                                !.total_paused = 0,
                                !.pausing = FALSE]
           ELSE [session EXCEPT !.session_started = NoTime,
                                !.is_paused = FALSE,
                                !.pausing = FALSE]
    /\ TimerRest

NextTimer ==
    \/ ClockTick
    \/ StartSession
    \/ NoaTogglePause
    \/ StandaloneTogglePause
    \/ \E rows \in BOOLEAN : NoaStopAndExport(rows)
    \/ StandaloneStopAndExport
    \/ TimerClearAll

SpecTimer == InitTimer /\ [][NextTimer]_vars

(***************************************************************************)
(* SpecIngest: the standalone app loading datasets of either format, the   *)
(* user editing the threshold box, applying the filter and clearing.  No   *)
(* image file exists, so every image_path comes back as declared.          *)
(***************************************************************************)
\* an entry with as many scores as boxes, under one of two paths of one name
IngestEntries ==
    {[image_path |-> ip, boxes |-> SubSeq(BoxPool, 1, m),
      scores |-> SubSeq(ScorePool, 1, m)] :
        ip \in ParsePaths \ {<<>>}, m \in 0..MaxBoxes}

\* the dataset files: one or two entries, written in either format
IngestDatasets ==
    LET raw == {<<e>> : e \in IngestEntries}
                   \cup {<<e1, e2>> : e1 \in IngestEntries, e2 \in IngestEntries}
    IN  {PredEntries(r) : r \in raw}
            \cup {DetectionsEntries(r) : r \in raw}

\* the values the user types into the threshold box, in percent
IngestThresholds == {0, 40, 90}

InitIngest ==
    /\ CacheIdle
    /\ WindowIdle
    /\ CropIdle
    /\ ResolverIdle
    /\ DecodeIdle
    /\ ParseIdle
    /\ ThreadsIdle
    /\ StripIdle
    /\ TimerIdle

\* the user edits threshold_spinbox: no handler is connected, nothing else moves
SetThreshold(val) ==
    /\ val # min_confidence
    /\ min_confidence' = val
    /\ UNCHANGED <<fs, data_root_path, json_file_path, annotations_data,
                   image_lookup_cache, memo_root, resolved,
                   current_detections, grid_order, flat,
                   confirmed_detections, click_timestamps, session_start_time,
                   exported>>
    /\ UNCHANGED <<cacheVars, windowVars, cropVars, decodeVars, parseVars, threadVars,
                 stripVars, timerVars>>

NextIngest ==
    \/ \E data \in IngestDatasets : LoadAnnotations(ParseRoot, data)
    \/ \E val \in IngestThresholds : SetThreshold(val)
    \/ ApplyConfidenceFilter
    \/ ClearAll

SpecIngest == InitIngest /\ [][NextIngest]_vars

(***************************************************************************)
(* SpecClicks: the standalone app under load, apply-filter, start-session, *)
(* thumbnail-click, stop and clear.  click_timestamps holds the keys of    *)
(* the dictionary of that name, session_start_time is None or Running.     *)
(***************************************************************************)
Running == "running"

\* the dataset files: one entry with one or two boxes, in either format
ClickDatasets ==
    LET raw == {<<e>> : e \in {x \in IngestEntries :
                                   x.image_path = <<"a.tif">> /\ Len(x.boxes) > 0}}
    IN  {PredEntries(r) : r \in raw} \cup {DetectionsEntries(r) : r \in raw}

\* the ids process_annotations gives their detections: file name and index
ClickIds == {<<"a.tif", i>> : i \in 0..(MaxBoxes - 1)}

ClickRest ==
    /\ UNCHANGED <<fs, data_root_path, json_file_path, annotations_data,
                   image_lookup_cache, memo_root, resolved,
                   current_detections, grid_order, flat, min_confidence>>
    /\ UNCHANGED <<cacheVars, windowVars, cropVars, decodeVars, parseVars, threadVars,
                 stripVars, timerVars>>

\* start_session, lines 1096-1116; start_btn is enabled without a session only
StartClickSession ==
    /\ session_start_time = None
    /\ current_detections # <<>>
    /\ session_start_time' = Running
    /\ click_timestamps' = {}
    /\ UNCHANGED <<confirmed_detections, exported>>
    /\ ClickRest

\* on_thumbnail_clicked, lines 1040-1078, on the thumbnail of a detection shown
OnThumbnailClicked(detection_id) ==
    /\ \E i \in 1..Len(current_detections) : current_detections[i].id = detection_id
    /\ session_start_time # None
    /\ IF detection_id \in confirmed_detections
       THEN /\ confirmed_detections' = confirmed_detections \ {detection_id}
            /\ click_timestamps' = click_timestamps \ {detection_id}
       ELSE /\ confirmed_detections' = confirmed_detections \cup {detection_id}
            /\ click_timestamps' = click_timestamps \cup {detection_id}
    /\ UNCHANGED <<session_start_time, exported>>
    /\ ClickRest

\* export_results, lines 1173-1216: nothing without a confirmation; else one
\* row per click timestamp whose detection is among current_detections
ExportResults ==
    IF confirmed_detections = {}
    THEN exported
    ELSE [rows |-> {detection_id \in click_timestamps :
                       \E i \in 1..Len(current_detections) :
                           current_detections[i].id = detection_id},
          confirmed |-> confirmed_detections]

\* stop_and_export, lines 1146-1171
StopAndExport ==
    /\ session_start_time # None
    /\ exported' = ExportResults
    /\ session_start_time' = None
    /\ UNCHANGED <<confirmed_detections, click_timestamps>>
    /\ ClickRest

NextClicks ==
    \/ \E data \in ClickDatasets : LoadAnnotations(ParseRoot, data)
    \/ \E val \in IngestThresholds : SetThreshold(val)
    \/ ApplyConfidenceFilter
    \/ StartClickSession
    \/ \E detection_id \in ClickIds : OnThumbnailClicked(detection_id)
    \/ StopAndExport
    \/ ClearAll

SpecClicks == InitIngest /\ [][NextClicks]_vars

(***************************************************************************)
(* SpecThreads: _thumb_for entered by several callers at once on one       *)
(* thumb_cache.  A caller is between its thumb_cache.get and its           *)
(* thumb_cache.put while it decodes and crops; get and put are each taken  *)
(* as one step.                                                            *)
(***************************************************************************)
Callers == {"t1", "t2"}

\* a caller outside _thumb_for
Outside == [at |-> "outside"]

InitThreads ==
    /\ capacity = ThumbCapacity
    /\ disk_dir = None
    /\ store = <<>>
    /\ disk = <<>>
    /\ recency = <<>>
    /\ lastPut = <<>>
    /\ last = NoOp
    /\ \E data \in JsonFiles : detections = LoadDetections(data)
    /\ conf_threshold = 0
    /\ files \in [ImagePaths -> FileStates]
    /\ pc = Idle
    /\ grid = <<>>
    /\ req = NoReq
    /\ prevReq = NoPrev
    /\ CropIdle
    /\ ResolverIdle
    /\ DecodeIdle
    /\ ParseIdle
    /\ tpc = [t \in Callers |-> Outside]
    /\ StripIdle
    /\ TimerIdle

\* _thumb_for, lines 144-147: the key, thumb_cache.get, and the return on a hit;
\* on a miss the caller goes on to decode
ThumbGet(t, det) ==
    /\ tpc[t].at = "outside"
    /\ \E key \in {CropKey("thumb", det)} :
           /\ store' = GetStore(store, disk, disk_dir, key, capacity)
           /\ tpc' = [tpc EXCEPT ![t] =
                         IF GetTier(store, disk, disk_dir, key) # "miss"
                         THEN Outside
                         ELSE [at |-> "computing", det |-> det, key |-> key]]
    /\ UNCHANGED <<capacity, disk_dir, disk, recency, lastPut, last>>
    /\ UNCHANGED <<windowVars, cropVars, resolverVars, decodeVars, parseVars,
                 stripVars, timerVars>>

\* _thumb_for, lines 148-154: load_image_rgb, crop_with_padding, the
\* conversions, then thumb_cache.put and the return; an exception leaves
\* _thumb_for without a put
ThumbPut(t) ==
    /\ tpc[t].at = "computing"
    /\ \E pix \in {RenderCrop(tpc[t].det, ThumbSpec, files)} :
           IF pix.error # None
           THEN UNCHANGED <<store, disk>>
           ELSE /\ store' = PutStore(store, tpc[t].key, pix, capacity)
                /\ disk' = PutDisk(disk, disk_dir, tpc[t].key, pix)
    /\ tpc' = [tpc EXCEPT ![t] = Outside]
    /\ UNCHANGED <<capacity, disk_dir, recency, lastPut, last>>
    /\ UNCHANGED <<windowVars, cropVars, resolverVars, decodeVars, parseVars,
                 stripVars, timerVars>>

NextThreads ==
    \/ \E t \in Callers, i \in 1..Len(detections) : ThumbGet(t, detections[i])
    \/ \E t \in Callers : ThumbPut(t)

SpecThreads == InitThreads /\ [][NextThreads]_vars

(***************************************************************************)
(* LRUCache.get and LRUCache.put statement by statement, for callers that  *)
(* run side by side on one cache and for a process that stops or a disk    *)
(* that fails in the middle.  A cache file holds a pickled value, or the   *)
(* beginning of one: open("wb") empties the file and pickle.dump fills it. *)
(***************************************************************************)
\* the content of a file that was opened for writing and not written to the end
Partial == "partial"

\* the keys the callers use
SharedKeys == {"k1", "k2"}

\* a caller that is in no cache method; ret is what its latest call returned or
\* raised
Returned(op, key, ret) == [at |-> "outside", op |-> op, key |-> key, ret |-> ret]

NotCalled == Returned(None, None, None)

\* get, lines 28-30: a key of the store is moved to the end and returned;
\* otherwise the caller goes on to the disk tier
GetLookup(t, k) ==
    /\ tpc[t].at = "outside"
    /\ IF k \in StoreKeys(store)
       THEN /\ store' = MoveToEnd(store, k)
            /\ tpc' = [tpc EXCEPT ![t] = Returned("get", k, ValueOf(store, k))]
       ELSE /\ store' = store
            /\ tpc' = [tpc EXCEPT ![t] = [at |-> "get_exists", key |-> k]]
    /\ UNCHANGED <<capacity, disk_dir, disk, recency, lastPut, last>>
    /\ UNCHANGED <<windowVars, cropVars, resolverVars, decodeVars, parseVars,
                 stripVars, timerVars>>

\* get, lines 31-32 and 39: without a directory or without a file, None
GetExists(t) ==
    /\ tpc[t].at = "get_exists"
    /\ tpc' = [tpc EXCEPT ![t] =
                  IF /\ KeyToPath(disk_dir, tpc[t].key) # None
                     /\ FileExists(disk, KeyToPath(disk_dir, tpc[t].key))
                  THEN [at |-> "get_load", key |-> tpc[t].key]
                  ELSE Returned("get", tpc[t].key, None)]
    /\ UNCHANGED <<cacheVars, windowVars, cropVars, resolverVars, decodeVars, parseVars,
                 stripVars, timerVars>>

\* get, lines 33-34: open("rb") and pickle.load, which raises on a file that
\* ends early; nothing catches it
GetLoad(t) ==
    /\ tpc[t].at = "get_load"
    /\ tpc' = [tpc EXCEPT ![t] =
                  IF disk[KeyToPath(disk_dir, tpc[t].key)] = Partial
                  THEN Returned("get", tpc[t].key, "EOFError")
                  ELSE [at |-> "get_promote", key |-> tpc[t].key,
                        val |-> disk[KeyToPath(disk_dir, tpc[t].key)]]]
    /\ UNCHANGED <<cacheVars, windowVars, cropVars, resolverVars, decodeVars, parseVars,
                 stripVars, timerVars>>

\* get, lines 35-38: the value read goes into the store and is returned
GetPromote(t) ==
    /\ tpc[t].at = "get_promote"
    /\ store' = Promote(store, tpc[t].key, tpc[t].val, capacity)
    /\ tpc' = [tpc EXCEPT ![t] = Returned("get", tpc[t].key, tpc[t].val)]
    /\ UNCHANGED <<capacity, disk_dir, disk, recency, lastPut, last>>
    /\ UNCHANGED <<windowVars, cropVars, resolverVars, decodeVars, parseVars,
                 stripVars, timerVars>>

\* put, lines 42-46: the memory tier, then the path; without a directory put
\* returns
PutMemory(t, k, v) ==
    /\ tpc[t].at = "outside"
    /\ store' = PutStore(store, k, v, capacity)
    /\ tpc' = [tpc EXCEPT ![t] =
                  IF KeyToPath(disk_dir, k) = None THEN Returned("put", k, None)
                  ELSE [at |-> "put_open", key |-> k, val |-> v]]
    /\ UNCHANGED <<capacity, disk_dir, disk, recency, lastPut, last>>
    /\ UNCHANGED <<windowVars, cropVars, resolverVars, decodeVars, parseVars,
                 stripVars, timerVars>>

\* put, line 47: p.open("wb") creates the file at its final path, or empties it
PutOpen(t) ==
    /\ tpc[t].at = "put_open"
    /\ disk' = PutDisk(disk, disk_dir, tpc[t].key, Partial)
    /\ tpc' = [tpc EXCEPT ![t] = [at |-> "put_dump", key |-> tpc[t].key,
                                  val |-> tpc[t].val]]
    /\ UNCHANGED <<capacity, disk_dir, store, recency, lastPut, last>>
    /\ UNCHANGED <<windowVars, cropVars, resolverVars, decodeVars, parseVars,
                 stripVars, timerVars>>

\* put, line 48: pickle.dump and the end of the with block
PutDump(t) ==
    /\ tpc[t].at = "put_dump"
    /\ disk' = PutDisk(disk, disk_dir, tpc[t].key, tpc[t].val)
    /\ tpc' = [tpc EXCEPT ![t] = Returned("put", tpc[t].key, None)]
    /\ UNCHANGED <<capacity, disk_dir, store, recency, lastPut, last>>
    /\ UNCHANGED <<windowVars, cropVars, resolverVars, decodeVars, parseVars,
                 stripVars, timerVars>>

CacheSteps(t) ==
    \/ \E k \in SharedKeys : GetLookup(t, k)
    \/ GetExists(t)
    \/ GetLoad(t)
    \/ GetPromote(t)
    \/ \E k \in SharedKeys, v \in CacheValues : PutMemory(t, k, v)
    \/ PutOpen(t)
    \/ PutDump(t)

InitSteps ==
    /\ capacity \in 1..MaxCapacity
    /\ disk_dir = CacheDir
    /\ store = <<>>
    /\ disk = <<>>
    /\ recency = <<>>
    /\ lastPut = <<>>
    /\ last = NoOp
    /\ WindowIdle
    /\ CropIdle
    /\ ResolverIdle
    /\ DecodeIdle
    /\ ParseIdle
    /\ StripIdle
    /\ TimerIdle

(***************************************************************************)
(* SpecCacheThreads: two callers of one LRUCache, every interleaving of    *)
(* their statements.                                                       *)
(***************************************************************************)
InitCacheThreads ==
    /\ InitSteps
    /\ tpc = [t \in Callers |-> NotCalled]

NextCacheThreads == \E t \in Callers : CacheSteps(t)

SpecCacheThreads == InitCacheThreads /\ [][NextCacheThreads]_vars

(***************************************************************************)
(* SpecCacheFaults: one caller, a disk that can fail under it, and a       *)
(* process that can stop at any statement and start again on the same      *)
(* directory.                                                              *)
(***************************************************************************)
Main == "main"

InitCacheFaults ==
    /\ InitSteps
    /\ tpc = [t \in {Main} |-> NotCalled]

\* the read of line 33-34 fails (OSError): get raises
ReadFails(t) ==
    /\ tpc[t].at = "get_load"
    /\ tpc' = [tpc EXCEPT ![t] = Returned("get", tpc[t].key, "OSError")]
    /\ UNCHANGED <<cacheVars, windowVars, cropVars, resolverVars, decodeVars, parseVars,
                 stripVars, timerVars>>

\* p.open("wb") fails (OSError): put raises, the store keeps the value
OpenFails(t) ==
    /\ tpc[t].at = "put_open"
    /\ tpc' = [tpc EXCEPT ![t] = Returned("put", tpc[t].key, "OSError")]
    /\ UNCHANGED <<cacheVars, windowVars, cropVars, resolverVars, decodeVars, parseVars,
                 stripVars, timerVars>>

\* pickle.dump fails part-way (OSError, a full disk): put raises, the file
\* stays as far as it was written
DumpFails(t) ==
    /\ tpc[t].at = "put_dump"
    /\ tpc' = [tpc EXCEPT ![t] = Returned("put", tpc[t].key, "OSError")]
    /\ UNCHANGED <<cacheVars, windowVars, cropVars, resolverVars, decodeVars, parseVars,
                 stripVars, timerVars>>

\* the process stops and a new one builds LRUCache on the same directory
Crash ==
    /\ store' = <<>>
    /\ tpc' = [t \in DOMAIN tpc |-> Returned("stopped", None, None)]
    /\ UNCHANGED <<capacity, disk_dir, disk, recency, lastPut, last>>
    /\ UNCHANGED <<windowVars, cropVars, resolverVars, decodeVars, parseVars,
                 stripVars, timerVars>>

NextCacheFaults ==
    \/ CacheSteps(Main)
    \/ ReadFails(Main)
    \/ OpenFails(Main)
    \/ DumpFails(Main)
    \/ Crash

SpecCacheFaults == InitCacheFaults /\ [][NextCacheFaults]_vars

(***************************************************************************)
(* Claims about the cache, checked under Spec.                             *)
(***************************************************************************)
SeqToSet(q) == {q[i] : i \in 1..Len(q)}

\* C1: when the in-memory store holds `capacity` entries, a put of a key that is
\* not in it evicts exactly one entry, the one whose last access (a get that
\* hit, or a put) is the oldest; the key of a get that hit just before is spared
\* whenever another key is older. A put into a store with room evicts nothing.
C1_EvictsLeastRecentlyUsed ==
    (last.op = "put" /\ last.tier # "mem") =>
        IF Len(last.preKeys) = capacity
        THEN /\ Len(last.evicted) = 1
             /\ last.evicted[1] = last.oldest
             /\ last.evicted[1] \in SeqToSet(last.preKeys)
             /\ StoreKeys(store) =
                    (SeqToSet(last.preKeys) \ {last.oldest}) \cup {last.key}
             /\ (last.prevKey # None /\ Len(last.preKeys) >= 2)
                    => last.evicted[1] # last.prevKey
        ELSE /\ last.evicted = <<>>
             /\ StoreKeys(store) = SeqToSet(last.preKeys) \cup {last.key}

C1_Witness ==
    /\ last.op = "put" /\ last.tier # "mem"
    /\ capacity >= 2
    /\ Len(last.preKeys) = capacity
    /\ last.prevKey # None
    /\ last.prevKey = last.preKeys[Len(last.preKeys)]
    /\ Len(last.evicted) = 1

\* C2: the in-memory store never holds more entries than the capacity.
C2_StoreWithinCapacity == Len(store) <= capacity

C2_Witness ==
    /\ last.op = "get" /\ last.tier = "disk"
    /\ Len(last.evicted) = 1
    /\ Len(store) = capacity

\* C5: a get of a key that is on disk but not in memory returns the disk value,
\* makes the key the most recently used entry of the store (evicting the least
\* recently used one when the store was full) and leaves the disk file as it was.
C5_DiskHitPromoted ==
    (last.op = "get" /\ last.tier = "disk") =>
        /\ last.diskVal # None
        /\ last.ret = last.diskVal
        /\ Len(store) >= 1
        /\ store[Len(store)] = [key |-> last.key, val |-> last.diskVal]
        /\ KeySeq(store) =
               Append(IF Len(last.preKeys) >= capacity
                      THEN Tail(last.preKeys) ELSE last.preKeys, last.key)
        /\ FileExists(disk, KeyToPath(disk_dir, last.key))
        /\ disk[KeyToPath(disk_dir, last.key)] = last.diskVal

C5_Witness ==
    /\ last.op = "get" /\ last.tier = "disk"
    /\ Len(last.preKeys) = capacity
    /\ Len(last.evicted) = 1
    /\ last.ret \in CacheValues

\* C6: with a disk directory, the file of every key that was put stays on disk
\* with the value of the latest put of that key, whatever was evicted from
\* memory since, and every get of such a key (also by a cache constructed anew
\* on the directory) returns that value.
C6_DiskCopyKept ==
    disk_dir # None =>
        /\ \A k \in CacheKeys :
              lastPut[k] # None =>
                  /\ FileExists(disk, KeyToPath(disk_dir, k))
                  /\ disk[KeyToPath(disk_dir, k)] = lastPut[k]
        /\ (last.op = "get" /\ lastPut[last.key] # None)
              => last.ret = lastPut[last.key]

C6_Witness ==
    /\ disk_dir # None
    /\ last.op = "get" /\ last.prevOp = "new" /\ last.tier = "disk"
    /\ last.ret = lastPut[last.key]
    /\ \E k \in CacheKeys : lastPut[k] # None /\ k \notin StoreKeys(store)

(***************************************************************************)
(* Claims about MainWindow's crops, checked under SpecWindow.              *)
(***************************************************************************)
\* C3: when the crop of one key is requested twice in a row and the first
\* request returned a buffer, the second returns the identical buffer, is
\* answered from the in-memory store and decodes nothing.
C3_SecondRequestFromCache ==
    (req.op # None /\ prevReq.key = req.key /\ prevReq.ret.error = None) =>
        /\ req.ret = prevReq.ret
        /\ req.tier = "mem"
        /\ req.decodes = 0

C3_Witness ==
    /\ req.op = "thumb"
    /\ prevReq.key = req.key
    /\ prevReq.decodes = 1
    /\ prevReq.ret.error = None
    /\ req.ret = prevReq.ret
    /\ req.decodes = 0

\* C4: a failed decode leaves nothing in the cache, so that a request made
\* while the file is loadable returns the crop of the decoded file and never a
\* value kept from a failed attempt.
C4_FailureNotCached ==
    (req.op # None /\ req.readable /\ req.ret.error = None) =>
        req.ret.pixmap.src # <<"placeholder">>

(***************************************************************************)
(* Claims about crop_with_padding, checked under SpecCrop.                 *)
(***************************************************************************)
\* the padded square [left, right) x [top, bottom) misses the image altogether
SquareOutside(image, bbox, spec) ==
    LET g == CropGeometry(image, bbox, spec)
    IN  \/ g.right <= 0
        \/ g.left >= image.width
        \/ g.bottom <= 0
        \/ g.top >= image.height

\* C10: for every box with xmax > xmin and ymax > ymin, every padding ratio
\* >= 0 and every output size >= 1, crop_with_padding raises nothing and
\* returns output_size x output_size x 3, all black when the padded square
\* lies outside the image.
C10_SquareOutputAnywhere ==
    crop_in.called =>
        /\ crop_out.error = None
        /\ crop_out.height = crop_in.spec.output_size
        /\ crop_out.width = crop_in.spec.output_size
        /\ crop_out.channels = 3
        /\ SquareOutside(crop_in.image, crop_in.bbox, crop_in.spec)
               => crop_out.black

\* the source pixel that lies under pixel (i, j) of the square, <<>> outside
\* the image
UnderSquare(g, image, i, j) ==
    IF /\ 0 <= g.top + i /\ g.top + i < image.height
       /\ 0 <= g.left + j /\ g.left + j < image.width
    THEN <<g.top + i, g.left + j>>
    ELSE <<>>

\* C26: when the padded square has a side 2*half > 0, the canvas is made, and
\* each of its pixels (i, j) is the source pixel at (top + i, left + j) where
\* the image has one and black elsewhere.
C26_CanvasIsSquareOverImage ==
    crop_in.called =>
        LET g == CropGeometry(crop_in.image, crop_in.bbox, crop_in.spec)
        IN  g.size > 0 =>
                /\ crop_out.error = None
                /\ \A i, j \in 0..(g.size - 1) :
                       CanvasPixel(g, crop_in.image, i, j)
                           = UnderSquare(g, crop_in.image, i, j)

\* C30: the square [left, right) x [top, bottom) computed for a box with
\* xmax > xmin and ymax > ymin contains the box, whatever the padding.
C30_SquareContainsBox ==
    crop_in.called =>
        LET g == CropGeometry(crop_in.image, crop_in.bbox, crop_in.spec)
        IN  /\ g.left <= crop_in.bbox.xmin
            /\ g.right >= crop_in.bbox.xmax
            /\ g.top <= crop_in.bbox.ymin
            /\ g.bottom >= crop_in.bbox.ymax

(***************************************************************************)
(* Claims about resolve_image_path, checked under SpecResolver.            *)
(***************************************************************************)
\* C7: a reference that matches neither as an existing absolute path nor
\* rebased onto the data root, while a file of its basename lies in an images
\* directory under the data root, resolves to a path whose parent directory is
\* named images (case-insensitive).
C7_ImagesDirPreferred ==
    \A i \in 1..Len(resolved) :
        (/\ ~resolved[i].absExists
         /\ ~resolved[i].rebasedExists
         /\ resolved[i].imagesMatch)
            => InImagesDir(PurePath(resolved[i].ret))

NothingMatches(f) ==
    /\ ~f.absExists
    /\ ~f.rebasedExists
    /\ ~f.memoExists
    /\ ~f.anyMatch

C9_IndexInvalidatedOnRootChange ==
    \A i \in 1..Len(resolved) :
        resolved[i].step = "cached" => resolved[i].memoRoot = resolved[i].root

(***************************************************************************)
(* Claims about load_image_rgb, checked under SpecDecode.                  *)
(***************************************************************************)
\* no decoder of the chain produced pixel data for the file
AllDecodersFail(file) ==
    /\ ~file.pil
    /\ file.cv2 = NoArray
    /\ ~TiffUsable(file.tifffile)

\* C11: when every decoder of the chain fails, load_image_rgb fails with a
\* DecodeError and returns no image, in particular no placeholder.
C11_AllFailedIsDecodeError ==
    (decode_in.called /\ AllDecodersFail(decode_in.file)) =>
        /\ "error" \in DOMAIN decode_out
        /\ decode_out.src # <<"placeholder">>

\* C12: whichever decoder succeeds, the buffer returned is ImgH x ImgW x 3:
\* one channel replicated, a fourth dropped, channel-first data transposed.
C12_ThreeChannelsLast ==
    (decode_in.called /\ ~AllDecodersFail(decode_in.file)) =>
        /\ decode_out.height = ImgH
        /\ decode_out.width = ImgW
        /\ decode_out.channels = 3

\* the first decoder that succeeds in the order still-image decoder (PIL),
\* TIFF decoder (tifffile), broad-format decoder (OpenCV)
FirstInOrder(file) ==
    IF file.pil THEN "PIL"
    ELSE IF TiffUsable(file.tifffile) THEN "tifffile"
    ELSE IF file.cv2 # NoArray THEN "cv2"
    ELSE None

\* C27: when some decoder succeeds, load_image_rgb and convert_all each give
\* the result of the first that does in the order PIL, tifffile, OpenCV.
C27_DecoderOrder ==
    (decode_in.called /\ FirstInOrder(decode_in.file) # None) =>
        /\ decode_out.src[1] = FirstInOrder(decode_in.file)
        /\ decode_out.convert.error = None
        /\ decode_out.convert.src = FirstInOrder(decode_in.file)

(***************************************************************************)
(* Claims about the parsers, checked under SpecParse.                      *)
(***************************************************************************)
\* what load_detections and process_annotations say of a detection: the image
\* name and index its id is made of, its box, its confidence
LdRows(out) ==
    [i \in 1..Len(out.detections) |->
        LET d == out.detections[i]
        IN  <<d.box_id, <<d.xmin, d.ymin, d.xmax, d.ymax>>, d.confidence>>]

PaRows(out) ==
    [i \in 1..Len(out.detections) |->
        LET d == out.detections[i]
        IN  <<d.id, d.bbox, d.confidence>>]

\* a dataset that is a list whose entries all name an image
WellFormed(in) ==
    /\ in.pred.kind = "list"
    /\ \A i \in 1..Len(in.raw) : in.raw[i].image_path # <<>>

\* C13: a dataset written with detections lists flattens to the same
\* detections (ids, boxes, confidences) as the same dataset written with
\* pred_boxes / pred_scores arrays, through either parser.
C13_BothSchemasSameDetections ==
    (/\ parse_in.called
     /\ WellFormed(parse_in)
     /\ \A i \in 1..Len(parse_in.raw) :
            Len(parse_in.raw[i].boxes) = Len(parse_in.raw[i].scores)) =>
        /\ parse_out.ld_dets.error = None
        /\ LdRows(parse_out.ld_dets) = LdRows(parse_out.ld_pred)
        /\ parse_out.pa_dets.error = None
        /\ PaRows(parse_out.pa_dets) = PaRows(parse_out.pa_pred)

\* the pairs an entry with m boxes and n scores stands for: the first
\* min(m, n) of them, with their indices from 0
RECURSIVE ExpectedRows(_)
ExpectedRows(raws) ==
    IF Len(raws) = 0 THEN <<>>
    ELSE LET e == raws[1]
             k == IF Len(e.boxes) <= Len(e.scores) THEN Len(e.boxes) ELSE Len(e.scores)
         IN  [i \in 1..k |->
                 <<<<Name(PurePath(e.image_path)), i - 1>>, e.boxes[i], e.scores[i]>>]
             \o ExpectedRows(Tail(raws))

\* C14: with a threshold that excludes nothing, an entry with m boxes and n
\* scores yields exactly its first min(m, n) pairs, in order, through
\* load_detections and through process_annotations; nothing is padded.
C14_TruncatedToShorter ==
    (parse_in.called /\ WellFormed(parse_in) /\ parse_in.threshold = 0) =>
        /\ parse_out.ld_pred.error = None
        /\ LdRows(parse_out.ld_pred) = ExpectedRows(parse_in.raw)
        /\ parse_out.pa_pred.error = None
        /\ PaRows(parse_out.pa_pred) = ExpectedRows(parse_in.raw)

C14_Witness ==
    /\ parse_in.called /\ WellFormed(parse_in) /\ parse_in.threshold = 0
    /\ Len(parse_in.raw) = 2
    /\ Len(parse_in.raw[1].boxes) = 2 /\ Len(parse_in.raw[1].scores) = 1
    /\ Len(parse_in.raw[2].boxes) = 1 /\ Len(parse_in.raw[2].scores) = 2
    /\ Len(parse_out.ld_pred.detections) = 2
    /\ Len(parse_out.pa_pred.detections) = 2

\* C15: a dataset whose top-level value is not a list, or one of whose
\* entries has no image_path, fails to parse with SchemaError.
C15_SchemaErrorRaised ==
    (parse_in.called /\ ~WellFormed(parse_in)) =>
        /\ parse_out.ld_pred.error = "SchemaError"
        /\ parse_out.pa_pred.error = "SchemaError"

\* C18: no two detections of one loaded dataset have the same id.
C18_IdsUnique ==
    parse_in.called =>
        /\ \A i, j \in 1..Len(parse_out.ld_pred.detections) :
               parse_out.ld_pred.detections[i].box_id
                   = parse_out.ld_pred.detections[j].box_id => i = j
        /\ \A i, j \in 1..Len(parse_out.pa_pred.detections) :
               parse_out.pa_pred.detections[i].id
                   = parse_out.pa_pred.detections[j].id => i = j

\* C19: every detection that ingestion produces has xmax > xmin and
\* ymax > ymin.
C19_NoDegenerateBox ==
    parse_in.called =>
        /\ \A i \in 1..Len(parse_out.ld_pred.detections) :
               LET d == parse_out.ld_pred.detections[i]
               IN  d.xmax > d.xmin /\ d.ymax > d.ymin
        /\ \A i \in 1..Len(parse_out.pa_pred.detections) :
               LET b == parse_out.pa_pred.detections[i].bbox
               IN  b[3] > b[1] /\ b[4] > b[2]

(***************************************************************************)
(* Claims about the standalone app's flattening, checked under SpecIngest. *)
(***************************************************************************)
\* the (box, score) pairs an entry of a dataset file declares, in file order:
\* the image reference, the index, the box, the confidence
RawPairs(entry) ==
    IF "detections" \in DOMAIN entry
    THEN [i \in 1..Len(entry.detections) |->
             <<entry.image_path, i - 1, entry.detections[i].bbox,
               entry.detections[i].confidence>>]
    ELSE [i \in 1..Len(entry.pred_boxes) |->
             <<entry.image_path, i - 1, entry.pred_boxes[i], entry.pred_scores[i]>>]

RECURSIVE AllRawPairs(_)
AllRawPairs(entries) ==
    IF Len(entries) = 0 THEN <<>>
    ELSE RawPairs(entries[1]) \o AllRawPairs(Tail(entries))

\* the same four facts of the detections the app holds
Presented(dets) ==
    [i \in 1..Len(dets) |->
        <<dets[i].image_path, dets[i].id[2], dets[i].bbox, dets[i].confidence>>]

Count(q, x) == Cardinality({i \in 1..Len(q) : q[i] = x})

\* C16: whatever was loaded and whatever thresholds were set before, the
\* detections held after flattening a dataset with threshold t are exactly its
\* pairs of confidence >= t: each such pair once, no pair below t.
C16_ExactlyAtOrAboveThreshold ==
    \E raw \in {AllRawPairs(flat.data)} :
    \E shown \in {Presented(current_detections)} :
        /\ \A i \in 1..Len(raw) :
               Count(shown, raw[i]) =
                   IF raw[i][4] >= flat.threshold THEN Count(raw, raw[i]) ELSE 0
        /\ \A i \in 1..Len(shown) : Count(raw, shown[i]) > 0

\* a flattening of two entries, one of them a detections list, with a
\* threshold that two pairs meet exactly and two miss, after which the box
\* was edited again
C16_Witness ==
    /\ flat.data # <<>>
    /\ flat.threshold = 90
    /\ min_confidence # flat.threshold
    /\ Len(current_detections) = 2
    /\ Len(AllRawPairs(flat.data)) = 4
    /\ \E i \in 1..Len(flat.data) : "detections" \in DOMAIN flat.data[i]

\* C17: the detections are held in file order (entries, then pairs within an
\* entry), and the grid shows them by descending confidence with equal
\* confidences in that order.
C17_FileOrderAndStableSort ==
    /\ Presented(current_detections)
           = SelectSeq(AllRawPairs(flat.data), LAMBDA r : r[4] >= flat.threshold)
    /\ Len(grid_order) = Len(current_detections)
    /\ \E p \in [1..Len(grid_order) -> 1..Len(grid_order)] :
           /\ \A k \in 1..Len(grid_order) : grid_order[k] = current_detections[p[k]]
           /\ \A k, l \in 1..Len(grid_order) :
                  k < l =>
                      \/ grid_order[k].confidence > grid_order[l].confidence
                      \/ /\ grid_order[k].confidence = grid_order[l].confidence
                         /\ p[k] < p[l]

\* two entries of different paths with the same confidence, and a lower one
\* between them in the file
C17_Witness ==
    /\ Len(current_detections) = 3
    /\ current_detections[1].confidence = current_detections[3].confidence
    /\ current_detections[2].confidence < current_detections[1].confidence
    /\ current_detections[1].image_path # current_detections[3].image_path
    /\ grid_order = <<current_detections[1], current_detections[3],
                      current_detections[2]>>

(***************************************************************************)
(* Claims about concurrent callers of _thumb_for, checked under            *)
(* SpecThreads.                                                            *)
(***************************************************************************)
\* C20: of the callers asking for one key that is not in the cache, at most one
\* is decoding and cropping for it at any time.
C20_OneComputationPerKey ==
    \A t1, t2 \in DOMAIN tpc :
        (/\ tpc[t1].at = "computing"
         /\ tpc[t2].at = "computing"
         /\ tpc[t1].key = tpc[t2].key) => t1 = t2

(***************************************************************************)
(* Claims about get and put side by side, checked under SpecCacheThreads.  *)
(***************************************************************************)
\* no caller is inside put
NoPutRunning ==
    \A t \in DOMAIN tpc : tpc[t].at \notin {"put_open", "put_dump"}

\* C21: whatever the interleaving, a get returns None or a complete value and
\* never meets a file that is being written; and when no put is running, a key
\* held by both tiers has one value in both.
C21_LastWriterWinsNoPartialRead ==
    /\ \A t \in DOMAIN tpc :
           (tpc[t].at = "outside" /\ tpc[t].op = "get") =>
               tpc[t].ret \in CacheValues \cup {None}
    /\ NoPutRunning =>
           \A k \in SharedKeys :
               (k \in StoreKeys(store) /\ FileExists(disk, KeyToPath(disk_dir, k))) =>
                   ValueOf(store, k) = disk[KeyToPath(disk_dir, k)]

(***************************************************************************)
(* Claims about a failing disk and a stopping process, checked under       *)
(* SpecCacheFaults.                                                        *)
(***************************************************************************)
\* C22: a get that goes to the disk tier, whenever the process stopped before,
\* finds at the key's final path a completely written value (or no file),
\* never the beginning of one.
C22_DiskWriteAllOrNothing ==
    \A t \in DOMAIN tpc :
        tpc[t].at = "get_load" => disk[KeyToPath(disk_dir, tpc[t].key)] # Partial

\* C23: no get and no put ends with an error of the disk tier: a failed read
\* is a miss, a failed write leaves put completed.
C23_DiskFailureNotFatal ==
    \A t \in DOMAIN tpc :
        (tpc[t].at = "outside" /\ tpc[t].op \in {"get", "put"}) =>
            tpc[t].ret \notin {"OSError", "EOFError"}

(***************************************************************************)
(* Claims about a batch of thumbnails, checked under SpecWindow.           *)
(***************************************************************************)
\* C24: while detections of the batch remain, _refresh_grid stays in its
\* loop whatever the thumbnail of the current one did: a failure for one
\* detection does not end the batch.
C24_FailureDoesNotAbortBatch ==
    [][(pc.at = "loop" /\ pc.i <= Len(pc.todo)) => pc'.at = "loop"]_vars

(***************************************************************************)
(* Claims about step 2 of resolve_image_path, checked under SpecStrip.     *)
(***************************************************************************)
\* the reference without its leading "./", if it has one
WithoutDotSlash(ref) ==
    IF Len(ref) >= 2 /\ ref[1] = "." /\ ref[2] = "/"
    THEN SubSeq(ref, 3, Len(ref))
    ELSE ref

\* C25: the candidate of step 2 is the data root joined with the reference
\* minus its leading "./" and nothing else: a leading "../", "/" or dot-named
\* directory stays in the path.
C25_OnlyDotSlashStripped ==
    strip_in.called =>
        strip_out.rebased
            = Resolve(JoinPath(strip_in.root,
                               PurePath(WithoutDotSlash(strip_in.image_path))), Cwd)

(***************************************************************************)
(* Claims about the session timer, checked under SpecTimer.                *)
(***************************************************************************)
\* C28: the elapsed time a stop computes is the time from start to stop minus
\* the time spent paused, a pause still running at the stop included.
C28_ElapsedExcludesPauses ==
    session.elapsed # NoTime => session.elapsed = session.due

(***************************************************************************)
(* Claims about confirmations and exports, checked under SpecClicks.       *)
(***************************************************************************)
\* C29: in every state the detections with a click timestamp are the confirmed
\* ones, and the rows of an export are the detections confirmed at that stop.
C29_TimestampsAreConfirmed ==
    /\ click_timestamps = confirmed_detections
    /\ exported.rows = exported.confirmed

====
